---------------------------- MODULE Spec2Model ----------------------------
(***************************************************************************)
(* A model of the data-access layer of pokemon-explorer (lib/pokemonApi):  *)
(* the LRUCache class, the pendingRequests registry, the three fetch       *)
(* functions, batchFetchPokemon, searchPokemon with its debounce timer,    *)
(* clearCache, and handleSearch of app/page.tsx.                           *)
(*                                                                         *)
(* One action is one macrotask of the JavaScript event loop (a call made   *)
(* by the UI, a timer firing, a network response arriving) together with   *)
(* every microtask (promise continuation) it triggers.                     *)
(***************************************************************************)
EXTENDS Integers, Sequences, FiniteSets, TLC

(***************************************************************************)
(* Bounds of the model.                                                    *)
(***************************************************************************)
MaxCap == 3         \* largest capacity an LRUCache is built with in SpecLRU
MaxLruOps == 5      \* number of operations applied to that cache
MaxRequests == 3    \* network operations started in one behaviour
MaxCalls == 3       \* direct calls of the three fetch functions
MaxClears == 1      \* calls of clearCache
MaxBatches == 1     \* calls of batchFetchPokemon
MaxBatchLen == 2    \* longest item list given to batchFetchPokemon
MaxConcurrency == 2 \* largest concurrency given to batchFetchPokemon
MaxSearches == 2    \* calls of searchPokemon
MaxUiCalls == 3     \* Spec: calls of all kinds together
MaxRetryReads == 2  \* SpecRetry: network operations started in one behaviour
MaxFetchOps == 4    \* SpecFetch: calls of all kinds together
MaxBatchOps == 2    \* SpecBatch: calls of all kinds together
MaxRebatches == 2   \* SpecRebatch: calls of batchFetchPokemon
MaxFilterSearches == 1 \* SpecFilter: calls of searchPokemon
MaxStatsOps == 3    \* SpecStats: calls of all kinds together
MaxPreloads == 1    \* calls of preloadEssentialData
MaxPreloadOps == 3  \* SpecPreload: calls of all kinds together

(***************************************************************************)
(* JavaScript values.                                                      *)
(***************************************************************************)
Undefined == [undefined |-> TRUE]

(***************************************************************************)
(* The JavaScript Map: a sequence of [key, value] entries in insertion     *)
(* order.  Map.set on a present key keeps the entry's place.               *)
(***************************************************************************)
MapIndex(m, k) ==
  IF \E i \in 1..Len(m) : m[i].key = k
  THEN CHOOSE i \in 1..Len(m) : m[i].key = k
  ELSE 0

MapHas(m, k) == MapIndex(m, k) # 0

MapGet(m, k) == IF MapHas(m, k) THEN m[MapIndex(m, k)].value ELSE Undefined

MapDelete(m, k) ==
  LET i == MapIndex(m, k)
  IN  IF i = 0 THEN m
      ELSE [j \in 1..(Len(m) - 1) |-> IF j < i THEN m[j] ELSE m[j + 1]]

MapSet(m, k, v) ==
  LET i == MapIndex(m, k)
  IN  IF i = 0 THEN Append(m, [key |-> k, value |-> v])
      ELSE [m EXCEPT ![i].value = v]

\* Map.keys().next(): the iterator result {value, done}
MapKeysNext(m) ==
  IF Len(m) = 0 THEN [done |-> TRUE, value |-> <<>>]
  ELSE [done |-> FALSE, value |-> m[1].key]

MapKeys(m) == {m[i].key : i \in 1..Len(m)}

\* Map.size
MapSize(m) == Len(m)

(***************************************************************************)
(* class LRUCache<T>: the private Map is the whole state of an instance;   *)
(* maxSize is passed to set.                                               *)
(***************************************************************************)
\* LRUGet without the delete/re-insert that moves the key to the end
LRUGet_NoPromote(c, key) ==
  [value |-> MapGet(c, key), cache |-> c]

\* get(key): the returned value and the cache after the call
LRUGet(c, key) ==
  LET value == MapGet(c, key)
  IN  [value |-> value,
       cache |-> IF value # Undefined
                 THEN MapSet(MapDelete(c, key), key, value)
                 ELSE c]

\* LRUSet with the capacity test off by one (size > maxSize)
LRUSet_LateEvict(c, maxSize, key, value) ==
  LET c1 == IF MapHas(c, key) THEN MapDelete(c, key)
            ELSE IF Len(c) > maxSize THEN Tail(c) ELSE c
  IN  MapSet(c1, key, value)

\* LRUSet that evicts the newest entry instead of the oldest
LRUSet_EvictNewest(c, maxSize, key, value) ==
  LET c1 == IF MapHas(c, key) THEN MapDelete(c, key)
            ELSE IF Len(c) >= maxSize /\ Len(c) > 0
                 THEN SubSeq(c, 1, Len(c) - 1)
                 ELSE c
  IN  MapSet(c1, key, value)

\* LRUSet that tests the capacity before it tests for the key
LRUSet_EvictFirst(c, maxSize, key, value) ==
  LET c1 == IF Len(c) >= maxSize /\ Len(c) > 0 THEN Tail(c) ELSE c
  IN  MapSet(MapDelete(c1, key), key, value)

\* set(key, value)
LRUSet(c, maxSize, key, value) ==
  LET c1 == IF MapHas(c, key) THEN MapDelete(c, key)
            ELSE IF Len(c) >= maxSize
                 THEN LET first == MapKeysNext(c)
                      IN  IF ~first.done      \* typeof firstKey === 'string'
                          THEN MapDelete(c, first.value)
                          ELSE c
                 ELSE c
  IN  MapSet(c1, key, value)

LRUHas(c, key) == MapHas(c, key)

\* has that moves a key it finds to the end, as get does
LRUHasCall_Promote(c, key) ==
  [value |-> MapHas(c, key),
   cache |-> IF MapHas(c, key)
             THEN MapSet(MapDelete(c, key), key, MapGet(c, key))
             ELSE c]

\* has(key) as a call: the returned value and the cache after the call
LRUHasCall(c, key) == [value |-> LRUHas(c, key), cache |-> c]

LRUClear(c) == <<>>

LRUSize(c) == Len(c)

(***************************************************************************)
(* Program constants.                                                      *)
(***************************************************************************)
BASE_URL == "https://pokeapi.co/api/v2"
PokemonCacheMax == 300
SummaryCacheMax == 1000
ListCacheMax == 10
DefaultLimit == 1010
SEARCH_LIMIT == 20
MaxRetries == 3            \* config.retry < 3
ServerErrorFloor == 500    \* error.response?.status >= 500
BackoffBase == 2           \* Math.pow(2, config.retry)
MsPerSecond == 1000        \* ... * 1000

(***************************************************************************)
(* The remote catalog.  Strings that the code takes apart or puts together *)
(* are sequences of their parts: a name is the sequence of its characters, *)
(* a locator is <<base, "/pokemon/", id, "/">>, and a cache key is its     *)
(* prefix followed by what the template literal appends to it.             *)
(***************************************************************************)
Url(i) == <<BASE_URL, "/pokemon/", ToString(i), "/">>

\* data.results of GET /pokemon?limit=...: the IndexReference list
Index ==
  << [name |-> <<"p", "i">>, url |-> Url(1)],
     [name |-> <<"p", "a">>, url |-> Url(2)] >>

Entities == 1..Len(Index)

\* the API serves an entity under its number and under its name:
\* `${BASE_URL}/pokemon/${nameOrId}`
NameUrl(i) == <<BASE_URL, "/pokemon/">> \o Index[i].name \o <<"/">>

EntityOfUrl(url) == CHOOSE i \in Entities : url \in {Index[i].url, NameUrl(i)}

\* response.data of request r: each response is a new object (obj)
ListData(r) == [results |-> Index, obj |-> r]

PokemonData(i, r) ==
  [id |-> i, name |-> Index[i].name,
   sprites |-> [front_default |-> <<"sprite", ToString(i)>>],
   types |-> << [type |-> [name |-> "normal"]] >>,
   obj |-> r]

\* the error a failed request r rejects with
ErrorOf(r) == [error |-> r]

(***************************************************************************)
(* Promises.  A promise of the layer is either already resolved with a     *)
(* value (req = 0) or follows the request promise of network operation     *)
(* req.  A settlement is fulfilled with a value or rejected with an error. *)
(***************************************************************************)
Resolved(v) == [req |-> 0, value |-> v]
Following(r) == [req |-> r, value |-> Undefined]

Fulfilled(v) == [status |-> "fulfilled", value |-> v]

(***************************************************************************)
(* State.                                                                  *)
(***************************************************************************)
VARIABLES
  pokemonCache,     \* LRUCache<RawPokemon>(300)
  summaryCache,     \* LRUCache<PokemonSummary>(1000)
  listCache,        \* LRUCache<PokemonListItem[]>(10)
  pendingRequests,  \* Map<string, Promise>: key -> [req |-> network operation]
  requests,         \* every network operation started so far, with its settlement
  calls,            \* history: the direct calls of the fetch functions
  batches,          \* the calls of batchFetchPokemon: their chunks, results, settlement
  preloads,         \* the calls of preloadEssentialData: their promises, settlement
  searches,         \* the calls of searchPokemon: timer, matches, fetches, settlement
  searchTimeout,    \* let searchTimeout: the search whose timer was set last (0: undefined)
  searchTerm,       \* page.tsx: useState searchTerm
  searchResults,    \* page.tsx: useState searchResults
  searching,        \* page.tsx: useState searching
  resultsFrom,      \* history: the search whose result searchResults holds (0: none)
  clears,           \* history: number of clearCache calls
  lru,        \* SpecLRU: the Map of one LRUCache instance
  lruMax,     \* SpecLRU: its maxSize
  lruTouch,   \* SpecLRU, history: key -> time of its last get-hit or set
  lruProbe,   \* SpecLRU, history: key -> time of its last has-hit
  lruClock,   \* SpecLRU, history: number of operations applied so far
  lruLast     \* SpecLRU, history: the last operation, its result, the Map before it

lruVars == <<lru, lruMax, lruTouch, lruProbe, lruClock, lruLast>>

searchVars == <<searches, searchTimeout>>

pageVars == <<searchTerm, searchResults, searching, resultsFrom>>

apiVars == <<pokemonCache, summaryCache, listCache, pendingRequests, requests,
             calls, batches, preloads, clears, searchVars, pageVars>>

vars == <<apiVars, lruVars>>

(***************************************************************************)
(* The module state the fetch functions read and write, as one value, so   *)
(* that several calls made in one macrotask can be chained.                *)
(***************************************************************************)
Store ==
  [pokemonCache |-> pokemonCache, listCache |-> listCache,
   pendingRequests |-> pendingRequests, requests |-> requests]

\* a network operation: the request promise of a fetch function with the
\* apiClient.get it awaits.  retry is config.retry (0 while it is unset),
\* phase tells whether an attempt is on the wire ("inflight") or the
\* interceptor is waiting before the next one ("backoff"); attempts and
\* delays (history) are the outcomes of the attempts made and the delays
\* the interceptor waited for, in ms.
NewRequest(fn, key, target) ==
  [fn |-> fn, key |-> key, target |-> target,
   status |-> "pending", value |-> Undefined,
   retry |-> 0, phase |-> "inflight", attempts |-> <<>>, delays |-> <<>>]

UnsettledRequests(reqs) == {r \in 1..Len(reqs) : reqs[r].status = "pending"}

ListKey(limit) == <<"list_", ToString(limit)>>
PokemonKey(nameOrId) == <<"pokemon_", ToString(nameOrId)>>
\* fetchPokemonFromUrl keyed like fetchPokemonDetails, by the entity
UrlKey_ByEntity(url) == PokemonKey(EntityOfUrl(url))

UrlKey(url) == <<"url_">> \o url

\* fetchPokemonList(limit) up to its return: the store after the call, the
\* promise returned, and whether the call started a network operation
FetchPokemonList(st, limit) ==
  LET cacheKey == ListKey(limit)
  IN  IF LRUHas(st.listCache, cacheKey)
      THEN LET g == LRUGet(st.listCache, cacheKey)
           IN  [st |-> [st EXCEPT !.listCache = g.cache],
                promise |-> Resolved(g.value), started |-> FALSE]
      ELSE IF MapHas(st.pendingRequests, cacheKey)
      THEN [st |-> st,
            promise |-> Following(MapGet(st.pendingRequests, cacheKey).req),
            started |-> FALSE]
      ELSE LET r == Len(st.requests) + 1
           IN  [st |-> [st EXCEPT
                          !.requests = Append(@, NewRequest("list", cacheKey, 0)),
                          !.pendingRequests = MapSet(@, cacheKey, [req |-> r])],
                promise |-> Following(r), started |-> TRUE]

\* fetchPokemonDetails(nameOrId) up to its return
FetchPokemonDetails(st, nameOrId) ==
  LET cacheKey == PokemonKey(nameOrId)
  IN  IF LRUHas(st.pokemonCache, cacheKey)
      THEN LET g == LRUGet(st.pokemonCache, cacheKey)
           IN  [st |-> [st EXCEPT !.pokemonCache = g.cache],
                promise |-> Resolved(g.value), started |-> FALSE]
      ELSE IF MapHas(st.pendingRequests, cacheKey)
      THEN [st |-> st,
            promise |-> Following(MapGet(st.pendingRequests, cacheKey).req),
            started |-> FALSE]
      ELSE LET r == Len(st.requests) + 1
           IN  [st |-> [st EXCEPT
                          !.requests = Append(@, NewRequest("pokemon", cacheKey, nameOrId)),
                          !.pendingRequests = MapSet(@, cacheKey, [req |-> r])],
                promise |-> Following(r), started |-> TRUE]

\* fetchPokemonFromUrl(url) up to its return
FetchPokemonFromUrl(st, url) ==
  LET cacheKey == UrlKey(url)
  IN  IF LRUHas(st.pokemonCache, cacheKey)
      THEN LET g == LRUGet(st.pokemonCache, cacheKey)
           IN  [st |-> [st EXCEPT !.pokemonCache = g.cache],
                promise |-> Resolved(g.value), started |-> FALSE]
      ELSE IF MapHas(st.pendingRequests, cacheKey)
      THEN [st |-> st,
            promise |-> Following(MapGet(st.pendingRequests, cacheKey).req),
            started |-> FALSE]
      ELSE LET r == Len(st.requests) + 1
           IN  [st |-> [st EXCEPT
                          !.requests = Append(@, NewRequest("url", cacheKey, EntityOfUrl(url))),
                          !.pendingRequests = MapSet(@, cacheKey, [req |-> r])],
                promise |-> Following(r), started |-> TRUE]

\* the request promise of operation r without its finally block: the
\* registration is removed only when the read succeeded
SettleRequest_DeleteOnSuccess(st, r, ok) ==
  LET q == st.requests[r]
      data == IF q.fn = "list" THEN ListData(r) ELSE PokemonData(q.target, r)
  IN  IF ok
      THEN [st EXCEPT
              !.requests[r].status = "fulfilled",
              !.requests[r].value = data,
              !.listCache = IF q.fn = "list"
                            THEN LRUSet(@, ListCacheMax, q.key, data) ELSE @,
              !.pokemonCache = IF q.fn = "list"
                               THEN @ ELSE LRUSet(@, PokemonCacheMax, q.key, data),
              !.pendingRequests = MapDelete(@, q.key)]
      ELSE [st EXCEPT
              !.requests[r].status = "rejected",
              !.requests[r].value = ErrorOf(r)]

\* the request promise of operation r with a cache.set that is skipped
\* when the registry no longer holds the operation's own entry
SettleRequest_SkipSetIfUnregistered(st, r, ok) ==
  LET q == st.requests[r]
      data == IF q.fn = "list" THEN ListData(r) ELSE PokemonData(q.target, r)
      own == MapHas(st.pendingRequests, q.key)
               /\ MapGet(st.pendingRequests, q.key).req = r
  IN  IF ok
      THEN [st EXCEPT
              !.requests[r].status = "fulfilled",
              !.requests[r].value = data,
              !.listCache = IF q.fn = "list" /\ own
                            THEN LRUSet(@, ListCacheMax, q.key, data) ELSE @,
              !.pokemonCache = IF q.fn = "list" \/ ~own
                               THEN @ ELSE LRUSet(@, PokemonCacheMax, q.key, data),
              !.pendingRequests = MapDelete(@, q.key)]
      ELSE [st EXCEPT
              !.requests[r].status = "rejected",
              !.requests[r].value = ErrorOf(r),
              !.pendingRequests = MapDelete(@, q.key)]

\* the request promise of operation r without its cache.set: the data is
\* returned to the waiters but not stored
SettleRequest_NoCacheSet(st, r, ok) ==
  LET q == st.requests[r]
      data == IF q.fn = "list" THEN ListData(r) ELSE PokemonData(q.target, r)
  IN  IF ok
      THEN [st EXCEPT
              !.requests[r].status = "fulfilled",
              !.requests[r].value = data,
              !.pendingRequests = MapDelete(@, q.key)]
      ELSE [st EXCEPT
              !.requests[r].status = "rejected",
              !.requests[r].value = ErrorOf(r),
              !.pendingRequests = MapDelete(@, q.key)]

\* a request promise that is aborted when a batch that waits for it has
\* been rejected: it rejects whatever the read gave and stores nothing
SettleRequest_AbortWithBatch(st, r, ok) ==
  LET q == st.requests[r]
      data == IF q.fn = "list" THEN ListData(r) ELSE PokemonData(q.target, r)
      aborted == \E b \in 1..Len(batches) :
                   /\ batches[b].status = "rejected"
                   /\ \E n \in 1..Len(batches[b].chunks) :
                        \E k \in 1..Len(batches[b].chunks[n].promises) :
                          batches[b].chunks[n].promises[k].req = r
  IN  IF ok /\ ~aborted
      THEN [st EXCEPT
              !.requests[r].status = "fulfilled",
              !.requests[r].value = data,
              !.listCache = IF q.fn = "list"
                            THEN LRUSet(@, ListCacheMax, q.key, data) ELSE @,
              !.pokemonCache = IF q.fn = "list"
                               THEN @ ELSE LRUSet(@, PokemonCacheMax, q.key, data),
              !.pendingRequests = MapDelete(@, q.key)]
      ELSE [st EXCEPT
              !.requests[r].status = "rejected",
              !.requests[r].value = ErrorOf(r),
              !.pendingRequests = MapDelete(@, q.key)]

\* the body of the request promise of operation r after apiClient.get has
\* settled: try { cache.set; return data } catch { throw } finally { delete }
SettleRequest(st, r, ok) ==
  LET q == st.requests[r]
      data == IF q.fn = "list" THEN ListData(r) ELSE PokemonData(q.target, r)
  IN  IF ok
      THEN [st EXCEPT
              !.requests[r].status = "fulfilled",
              !.requests[r].value = data,
              !.listCache = IF q.fn = "list"
                            THEN LRUSet(@, ListCacheMax, q.key, data) ELSE @,
              !.pokemonCache = IF q.fn = "list"
                               THEN @ ELSE LRUSet(@, PokemonCacheMax, q.key, data),
              !.pendingRequests = MapDelete(@, q.key)]
      ELSE [st EXCEPT
              !.requests[r].status = "rejected",
              !.requests[r].value = ErrorOf(r),
              !.pendingRequests = MapDelete(@, q.key)]

\* the settlement of a promise of the layer, given the requests
Settlement(p, reqs) ==
  IF p.req = 0 THEN Fulfilled(p.value)
  ELSE [status |-> reqs[p.req].status, value |-> reqs[p.req].value]

SetStore(st) ==
  /\ pokemonCache' = st.pokemonCache
  /\ listCache' = st.listCache
  /\ pendingRequests' = st.pendingRequests
  /\ requests' = st.requests

(***************************************************************************)
(* Actions: calls made by the UI.                                          *)
(***************************************************************************)
\* a direct call, with what the caller saw: the key, the promise it got,
\* whether it started an operation, the operations of its key that were
\* unsettled when it called, whether the key was cached when it called,
\* whether the call added a registry entry, the number of clearCache calls
\* before it, and the settlement of its promise
Call(fn, key, f) ==
  [fn |-> fn, key |-> key, req |-> f.promise.req, started |-> f.started,
   live |-> {r \in UnsettledRequests(requests) : requests[r].key = key},
   cached |-> LRUHas(IF fn = "fetchPokemonList" THEN listCache ELSE pokemonCache, key),
   registered |-> MapHas(f.st.pendingRequests, key) /\ ~MapHas(pendingRequests, key),
   clears |-> clears,
   result |-> Settlement(f.promise, f.st.requests)]

CallFetchPokemonList(limit) ==
  /\ Len(calls) < MaxCalls
  /\ LET f == FetchPokemonList(Store, limit)
     IN  /\ Len(f.st.requests) <= MaxRequests
         /\ SetStore(f.st)
         /\ calls' = Append(calls, Call("fetchPokemonList", ListKey(limit), f))
  /\ UNCHANGED <<summaryCache, batches, preloads, clears, searchVars, pageVars, lruVars>>

CallFetchPokemonDetails(nameOrId) ==
  /\ Len(calls) < MaxCalls
  /\ LET f == FetchPokemonDetails(Store, nameOrId)
     IN  /\ Len(f.st.requests) <= MaxRequests
         /\ SetStore(f.st)
         /\ calls' = Append(calls, Call("fetchPokemonDetails", PokemonKey(nameOrId), f))
  /\ UNCHANGED <<summaryCache, batches, preloads, clears, searchVars, pageVars, lruVars>>

CallFetchPokemonFromUrl(url) ==
  /\ Len(calls) < MaxCalls
  /\ LET f == FetchPokemonFromUrl(Store, url)
     IN  /\ Len(f.st.requests) <= MaxRequests
         /\ SetStore(f.st)
         /\ calls' = Append(calls, Call("fetchPokemonFromUrl", UrlKey(url), f))
  /\ UNCHANGED <<summaryCache, batches, preloads, clears, searchVars, pageVars, lruVars>>

\* clearCache without pendingRequests.clear()
ClearCache_KeepRegistry ==
  /\ clears < MaxClears
  /\ pokemonCache' = LRUClear(pokemonCache)
  /\ summaryCache' = LRUClear(summaryCache)
  /\ listCache' = LRUClear(listCache)
  /\ clears' = clears + 1
  /\ UNCHANGED <<pendingRequests, requests, calls, batches, preloads, searchVars, pageVars,
                 lruVars>>

\* getCacheStats(): the object it returns in the current state
GetCacheStats ==
  [pokemon |-> LRUSize(pokemonCache),
   summaries |-> LRUSize(summaryCache),
   lists |-> LRUSize(listCache),
   pending |-> MapSize(pendingRequests)]

\* clearCache()
ClearCache ==
  /\ clears < MaxClears
  /\ pokemonCache' = LRUClear(pokemonCache)
  /\ summaryCache' = LRUClear(summaryCache)
  /\ listCache' = LRUClear(listCache)
  /\ pendingRequests' = <<>>
  /\ clears' = clears + 1
  /\ UNCHANGED <<requests, calls, batches, preloads, searchVars, pageVars, lruVars>>

(***************************************************************************)
(* batchFetchPokemon.                                                      *)
(***************************************************************************)
\* Array.prototype.sort with a consistent comparator: a stable sort;
\* before[i][j] is "the comparator puts xs[i] before xs[j]" (a negative
\* result)
SortWith(xs, before) ==
  LET \* the number of elements the sort puts before xs[i]
      rank(i) == Cardinality({j \in 1..Len(xs) :
                                \/ before[j][i]
                                \/ ~before[i][j] /\ j < i})
  IN  [p \in 1..Len(xs) |-> xs[CHOOSE i \in 1..Len(xs) : rank(i) = p - 1]]

\* the return of batchFetchPokemon without the sort: results in the order
\* the chunks pushed them
SortById_PushOrder(results) == results

\* results.sort((a, b) => a.id - b.id)
SortById(results) ==
  SortWith(results,
           [i \in 1..Len(results) |->
              [j \in 1..Len(results) |-> results[i].id - results[j].id < 0]])

\* items.slice(i, i + concurrency), i a 0-based index
Slice(items, i, j) ==
  SubSeq(items, i + 1, IF j < Len(items) THEN j ELSE Len(items))

\* batch.map over the distinct locators of the chunk only: an item whose
\* locator was met earlier in the chunk gets no promise
RECURSIVE MapFetchPokemonFromUrl_SkipRepeated(_, _)
MapFetchPokemonFromUrl_SkipRepeated(st, batch) ==
  IF Len(batch) = 0 THEN [st |-> st, promises |-> <<>>, started |-> {}]
  ELSE LET f == FetchPokemonFromUrl(st, batch[1].url)
           rest == MapFetchPokemonFromUrl_SkipRepeated(
                     f.st, SelectSeq(Tail(batch), LAMBDA x : x.url # batch[1].url))
       IN  [st |-> rest.st,
            promises |-> <<f.promise>> \o rest.promises,
            started |-> (IF f.started THEN {f.promise.req} ELSE {}) \cup rest.started]

\* batch.map(item => fetchPokemonFromUrl(item.url)): the calls are made one
\* after the other, each on the store the previous one left
RECURSIVE MapFetchPokemonFromUrl(_, _)
MapFetchPokemonFromUrl(st, batch) ==
  IF Len(batch) = 0 THEN [st |-> st, promises |-> <<>>, started |-> {}]
  ELSE LET f == FetchPokemonFromUrl(st, batch[1].url)
           rest == MapFetchPokemonFromUrl(f.st, Tail(batch))
       IN  [st |-> rest.st,
            promises |-> <<f.promise>> \o rest.promises,
            started |-> (IF f.started THEN {f.promise.req} ELSE {}) \cup rest.started]

PromiseReqs(promises) ==
  {promises[i].req : i \in 1..Len(promises)} \ {0}

\* the for loop of batchFetchPokemon from index i on: every chunk's fetches
\* are issued in this one synchronous loop.  prevUnsettled (history) is the
\* set of operations of the previous chunk that were unsettled at the moment
\* this chunk's fetches were issued.
RECURSIVE BatchLoop(_, _, _, _, _)
BatchLoop(st, items, concurrency, i, prev) ==
  IF ~(i < Len(items)) THEN [st |-> st, chunks |-> <<>>, started |-> {}]
  ELSE LET batch == Slice(items, i, i + concurrency)
           m == MapFetchPokemonFromUrl(st, batch)
           chunk == [promises |-> m.promises, status |-> "pending",
                     prevUnsettled |-> PromiseReqs(prev) \cap UnsettledRequests(st.requests)]
           rest == BatchLoop(m.st, items, concurrency, i + concurrency, m.promises)
       IN  [st |-> rest.st,
            chunks |-> <<chunk>> \o rest.chunks,
            started |-> m.started \cup rest.started]

\* Promise.all(batch...).then(batchResults => results.push(...batchResults))
\* for every chunk, and await Promise.all(promises); return results.sort(...):
\* the continuations of one batch that can run given the requests
RECURSIVE RunChunks(_, _, _)
RunChunks(b, n, reqs) ==
  IF n > Len(b.chunks) THEN b
  ELSE LET ch == b.chunks[n]
           outcomes == [k \in 1..Len(ch.promises) |-> Settlement(ch.promises[k], reqs)]
           rejected == {k \in 1..Len(outcomes) : outcomes[k].status = "rejected"}
           allDone == \A k \in 1..Len(outcomes) : outcomes[k].status = "fulfilled"
           b1 == IF ch.status # "pending" THEN b
                 ELSE IF rejected # {}
                 THEN LET k == CHOOSE x \in rejected : \A y \in rejected : x <= y
                      IN  [b EXCEPT !.chunks[n].status = "rejected",
                                    !.status = IF @ = "pending" THEN "rejected" ELSE @,
                                    !.value = IF b.status = "pending"
                                              THEN outcomes[k].value ELSE @]
                 ELSE IF allDone
                 THEN [b EXCEPT !.chunks[n].status = "fulfilled",
                                !.results = @ \o [k \in 1..Len(outcomes) |-> outcomes[k].value]]
                 ELSE b
       IN  RunChunks(b1, n + 1, reqs)

\* a batch that drops the failed chunks and returns the rest
RunBatch_PartialResult(b, reqs) ==
  LET b1 == RunChunks(b, 1, reqs)
  IN  IF \A n \in 1..Len(b1.chunks) : b1.chunks[n].status # "pending"
      THEN [b1 EXCEPT !.status = "fulfilled", !.value = SortById(b1.results)]
      ELSE [b1 EXCEPT !.status = "pending", !.value = Undefined]

RunBatch(b, reqs) ==
  LET b1 == RunChunks(b, 1, reqs)
  IN  IF /\ b1.status = "pending"
         /\ \A n \in 1..Len(b1.chunks) : b1.chunks[n].status = "fulfilled"
      THEN [b1 EXCEPT !.status = "fulfilled", !.value = SortById(b1.results)]
      ELSE b1

\* batchFetchPokemon(items, concurrency) up to its await, and the
\* continuations that can run at once
BatchFetchPokemon(items, concurrency) ==
  /\ LET l == BatchLoop(Store, items, concurrency, 0, <<>>)
         b == [items |-> items, concurrency |-> concurrency,
               chunks |-> l.chunks, started |-> l.started,
               results |-> <<>>, status |-> "pending", value |-> Undefined]
     IN  /\ Len(l.st.requests) <= MaxRequests
         /\ SetStore(l.st)
         /\ batches' = Append(batches, RunBatch(b, l.st.requests))
  /\ UNCHANGED <<summaryCache, calls, preloads, clears, searchVars, pageVars,
                 lruVars>>

\* batchFetchPokemon(items, concurrency), called by the page
CallBatchFetchPokemon(items, concurrency) ==
  /\ Len(batches) < MaxBatches
  /\ BatchFetchPokemon(items, concurrency)

(***************************************************************************)
(* preloadEssentialData and prefetchPopularPokemon.                        *)
(***************************************************************************)
\* popularIds, cut to the entities of the catalog above
PopularIds == <<1, 2>>

\* popularIds.map(id => fetchPokemonDetails(id)...): the calls are made one
\* after the other in the same macrotask
RECURSIVE MapFetchPokemonDetails(_, _)
MapFetchPokemonDetails(st, ids) ==
  IF Len(ids) = 0 THEN [st |-> st, promises |-> <<>>, started |-> {}]
  ELSE LET f == FetchPokemonDetails(st, ids[1])
           rest == MapFetchPokemonDetails(f.st, Tail(ids))
       IN  [st |-> rest.st,
            promises |-> <<f.promise>> \o rest.promises,
            started |-> (IF f.started THEN {f.promise.req} ELSE {}) \cup rest.started]

\* preloadEssentialData() up to its await: fetchPokemonList(1010) is called,
\* then prefetchPopularPokemon() calls fetchPokemonDetails for every id
PreloadEssentialData(st) ==
  LET l == FetchPokemonList(st, DefaultLimit)
      m == MapFetchPokemonDetails(l.st, PopularIds)
  IN  [st |-> m.st,
       preload |-> [list |-> l.promise, prefetch |-> m.promises,
                    started |-> (IF l.started THEN {l.promise.req} ELSE {})
                                  \cup m.started,
                    status |-> "pending", value |-> Undefined]]

\* preload p with prefetchPopularPokemon lacking `.catch(() => null)`: a
\* failed prefetch rejects the outer Promise.all
RunPreload_NoCatch(p, reqs) ==
  LET l == Settlement(p.list, reqs)
      failed == {k \in 1..Len(p.prefetch) :
                   Settlement(p.prefetch[k], reqs).status = "rejected"}
  IN  IF p.status # "pending" THEN p
      ELSE IF l.status = "rejected"
      THEN [p EXCEPT !.status = "rejected", !.value = l.value]
      ELSE IF failed # {}
      THEN [p EXCEPT !.status = "rejected",
                     !.value = Settlement(p.prefetch[CHOOSE k \in failed : TRUE],
                                          reqs).value]
      ELSE IF /\ l.status = "fulfilled"
              /\ \A k \in 1..Len(p.prefetch) :
                   Settlement(p.prefetch[k], reqs).status # "pending"
      THEN [p EXCEPT !.status = "fulfilled", !.value = l.value]
      ELSE p

\* the continuations of preload p that can run given the requests:
\* Promise.all([fetchPokemonList(1010), prefetchPopularPokemon()]) rejects
\* as soon as the list promise rejects; every prefetch promise has
\* `.catch(() => null)`, so prefetchPopularPokemon resolves once each of
\* its fetches has settled, either way; the list is returned when both
\* have resolved
RunPreload(p, reqs) ==
  LET l == Settlement(p.list, reqs)
  IN  IF p.status # "pending" THEN p
      ELSE IF l.status = "rejected"
      THEN [p EXCEPT !.status = "rejected", !.value = l.value]
      ELSE IF /\ l.status = "fulfilled"
              /\ \A k \in 1..Len(p.prefetch) :
                   Settlement(p.prefetch[k], reqs).status # "pending"
      THEN [p EXCEPT !.status = "fulfilled", !.value = l.value]
      ELSE p

\* preloadEssentialData(), called by loadInitialData of the page
CallPreloadEssentialData ==
  /\ Len(preloads) < MaxPreloads
  /\ LET f == PreloadEssentialData(Store)
     IN  /\ Len(f.st.requests) <= MaxRequests
         /\ SetStore(f.st)
         /\ preloads' = Append(preloads, RunPreload(f.preload, f.st.requests))
  /\ UNCHANGED <<summaryCache, calls, batches, clears, searchVars, pageVars,
                 lruVars>>

(***************************************************************************)
(* searchPokemon and handleSearch.                                         *)
(***************************************************************************)
\* String.prototype.toLowerCase and trim, on sequences of characters
LowerChar(c) ==
  CASE c = "P" -> "p" [] c = "I" -> "i" [] c = "A" -> "a" [] OTHER -> c

ToLowerCase(str) == [i \in 1..Len(str) |-> LowerChar(str[i])]

IsSpace(c) == c = " "

RECURSIVE TrimStart(_)
TrimStart(str) ==
  IF Len(str) > 0 /\ IsSpace(str[1]) THEN TrimStart(Tail(str)) ELSE str

RECURSIVE TrimEnd(_)
TrimEnd(str) ==
  IF Len(str) > 0 /\ IsSpace(str[Len(str)])
  THEN TrimEnd(SubSeq(str, 1, Len(str) - 1)) ELSE str

Trim(str) == TrimEnd(TrimStart(str))

\* String.prototype.includes
Includes(str, sub) ==
  \E i \in 0..(Len(str) - Len(sub)) : SubSeq(str, i + 1, i + Len(sub)) = sub

\* allPokemon.filter(p => p.name.includes(normalized))
Filter(allPokemon, normalized) ==
  SelectSeq(allPokemon, LAMBDA p : Includes(p.name, normalized))

SummaryKey(name) == <<"summary_">> \o name

\* the strings \d+ matches, and parseInt of one of them
Digits == {ToString(n) : n \in 0..9}

ParseInt(str) == CHOOSE n \in 0..9 : ToString(n) = str

\* getPokemonIdFromUrl: url.match(/\/pokemon\/(\d+)\//), null as Undefined
GetPokemonIdFromUrl(url) ==
  LET hits == {i \in 1..(Len(url) - 2) :
                 url[i] = "/pokemon/" /\ url[i + 1] \in Digits /\ url[i + 2] = "/"}
  IN  IF hits = {} THEN Undefined
      ELSE [match |-> url[(CHOOSE i \in hits : \A j \in hits : i <= j) + 1]]

\* the summary built from a fetched entry
SummaryOf(pokemon, item) ==
  [id |-> pokemon.id, name |-> pokemon.name, url |-> item.url,
   sprite |-> pokemon.sprites.front_default,
   types |-> [t \in 1..Len(pokemon.types) |-> pokemon.types[t].type.name]]

\* the fallback without getPokemonIdFromUrl: the id is always 0
BasicSummary_NoIdFromUrl(item) ==
  [id |-> 0, name |-> item.name, url |-> item.url]

\* the summary returned when the fetch failed
BasicSummary(item) ==
  LET id == GetPokemonIdFromUrl(item.url)
  IN  [id |-> IF id = Undefined THEN 0 ELSE ParseInt(id.match),
       name |-> item.name, url |-> item.url]

\* matches.findIndex(m => m.name === name): 0-based, -1 when there is none
FindIndex(matches, name) ==
  LET hits == {i \in 1..Len(matches) : matches[i].name = name}
  IN  IF hits = {} THEN -1
      ELSE (CHOOSE i \in hits : \A j \in hits : i <= j) - 1

\* searchPokemon without the final sort: cached summaries first, then the
\* fetched ones
SortSummaries_Unsorted(summaries, matches) == summaries

\* summaries.sort((a, b) => aIndex - bIndex || a.id - b.id)
SortSummaries(summaries, matches) ==
  SortWith(summaries,
           [i \in 1..Len(summaries) |->
              [j \in 1..Len(summaries) |->
                 LET a == summaries[i]
                     b == summaries[j]
                     d == FindIndex(matches, a.name) - FindIndex(matches, b.name)
                 IN  IF d # 0 THEN d < 0 ELSE a.id - b.id < 0]])

\* the loop over matches without the summaryCache.has test: every match
\* goes to toFetch
Partition_AllToFetch(sc, matches) ==
  [summaryCache |-> sc, summaries |-> <<>>, toFetch |-> matches]

\* the loop over matches: cached summaries are read (and promoted), the
\* other matches go to toFetch
RECURSIVE Partition(_, _)
Partition(sc, matches) ==
  IF Len(matches) = 0 THEN [summaryCache |-> sc, summaries |-> <<>>, toFetch |-> <<>>]
  ELSE LET match == matches[1]
           cacheKey == SummaryKey(match.name)
       IN  IF LRUHas(sc, cacheKey)
           THEN LET g == LRUGet(sc, cacheKey)
                    rest == Partition(g.cache, Tail(matches))
                IN  [rest EXCEPT !.summaries = <<g.value>> \o @]
           ELSE LET rest == Partition(sc, Tail(matches))
                IN  [rest EXCEPT !.toFetch = <<match>> \o @]

\* the toFetch.map callbacks with a catch block that also stores the basic
\* summary in the summary cache
RECURSIVE RunFetches_CacheFallback(_, _, _, _)
RunFetches_CacheFallback(sc, fetches, k, reqs) ==
  IF k > Len(fetches) THEN [summaryCache |-> sc, fetches |-> fetches]
  ELSE LET f == fetches[k]
           out == Settlement(f.promise, reqs)
       IN  IF f.summary # Undefined \/ out.status = "pending"
           THEN RunFetches_CacheFallback(sc, fetches, k + 1, reqs)
           ELSE LET summary == IF out.status = "fulfilled"
                               THEN SummaryOf(out.value, f.item)
                               ELSE BasicSummary(f.item)
                IN  RunFetches_CacheFallback(
                      LRUSet(sc, SummaryCacheMax, SummaryKey(f.item.name), summary),
                      [fetches EXCEPT ![k].summary = summary], k + 1, reqs)

\* the continuations of the toFetch.map callbacks of one search that can run
\* given the requests: a fetched entry becomes a summary and is cached, a
\* failed fetch becomes the basic summary.  sc is the summary cache.
RECURSIVE RunFetches(_, _, _, _)
RunFetches(sc, fetches, k, reqs) ==
  IF k > Len(fetches) THEN [summaryCache |-> sc, fetches |-> fetches]
  ELSE LET f == fetches[k]
           out == Settlement(f.promise, reqs)
       IN  IF f.summary # Undefined \/ out.status = "pending"
           THEN RunFetches(sc, fetches, k + 1, reqs)
           ELSE IF out.status = "fulfilled"
           THEN LET summary == SummaryOf(out.value, f.item)
                IN  RunFetches(LRUSet(sc, SummaryCacheMax, SummaryKey(f.item.name), summary),
                               [fetches EXCEPT ![k].summary = summary], k + 1, reqs)
           ELSE RunFetches(sc, [fetches EXCEPT ![k].summary = BasicSummary(f.item)],
                           k + 1, reqs)

\* one search after its fetch continuations ran: when every fetch has its
\* summary, the summaries are sorted and the promise of searchPokemon resolves
RunSearch(sc, s, reqs) ==
  IF s.phase # "resolving" THEN [summaryCache |-> sc, search |-> s]
  ELSE LET f == RunFetches(sc, s.fetches, 1, reqs)
           done == \A k \in 1..Len(f.fetches) : f.fetches[k].summary # Undefined
           summaries == s.summaries \o [k \in 1..Len(f.fetches) |-> f.fetches[k].summary]
       IN  [summaryCache |-> f.summaryCache,
            search |-> IF done
                       THEN [s EXCEPT !.fetches = f.fetches, !.phase = "settled",
                                      !.result = SortSummaries(summaries, s.matches)]
                       ELSE [s EXCEPT !.fetches = f.fetches]]

\* every search, in the order of the calls
RECURSIVE RunSearches(_, _, _, _)
RunSearches(sc, ss, n, reqs) ==
  IF n > Len(ss) THEN [summaryCache |-> sc, searches |-> ss]
  ELSE LET r == RunSearch(sc, ss[n], reqs)
       IN  RunSearches(r.summaryCache, [ss EXCEPT ![n] = r.search], n + 1, reqs)

\* page.tsx handleSearch after `await searchPokemon(...)`: the searches
\* that settled in this macrotask set searchResults, in the order they settled
SettledNow(old, new) ==
  {n \in 1..Len(new) :
     /\ new[n].phase = "settled"
     /\ new[n].caller = "handleSearch"
     /\ (n > Len(old) \/ old[n].phase # "settled")}

RunPage(old, new) ==
  LET now == SettledNow(old, new)
  IN  IF now = {} THEN UNCHANGED <<searchResults, searching, resultsFrom>>
      ELSE LET last == CHOOSE n \in now : \A m \in now : m <= n
           IN  /\ searchResults' = new[last].result
               /\ resultsFrom' = last
               /\ searching' = FALSE

\* the timers of searchPokemon that were set and have neither fired nor
\* been cleared
PendingTimers(ss) == {n \in 1..Len(ss) : ss[n].phase = "debouncing"}

\* searchPokemon without `if (searchTimeout) clearTimeout(searchTimeout)`
SearchPokemon_NoClearTimeout(ss, timeout, caller, query, allPokemon, maxResults) ==
  Append(ss,
         [caller |-> caller, query |-> query, allPokemon |-> allPokemon,
          maxResults |-> maxResults, phase |-> "debouncing",
          within |-> PendingTimers(ss),
          matches |-> <<>>, summaries |-> <<>>, fetches |-> <<>>,
          result |-> Undefined])

\* searchPokemon that resolves the promise of the call whose timer it
\* clears with []
SearchPokemon_ResolveSuperseded(ss, timeout, caller, query, allPokemon, maxResults) ==
  LET cleared == IF timeout # 0 /\ ss[timeout].phase = "debouncing"
                 THEN [ss EXCEPT ![timeout].phase = "settled",
                                 ![timeout].result = <<>>]
                 ELSE ss
  IN  Append(cleared,
             [caller |-> caller, query |-> query, allPokemon |-> allPokemon,
              maxResults |-> maxResults, phase |-> "debouncing",
              within |-> PendingTimers(ss),
              matches |-> <<>>, summaries |-> <<>>, fetches |-> <<>>,
              result |-> Undefined])

\* searchPokemon(query, allPokemon, maxResults) up to its return: the timer
\* of the previous call is cleared and a new one is set.  within (history)
\* is the set of earlier calls whose debounce interval had not elapsed when
\* this call was made.
SearchPokemon(ss, timeout, caller, query, allPokemon, maxResults) ==
  LET cleared == IF timeout # 0 /\ ss[timeout].phase = "debouncing"
                 THEN [ss EXCEPT ![timeout].phase = "cancelled"]
                 ELSE ss
  IN  Append(cleared,
             [caller |-> caller, query |-> query, allPokemon |-> allPokemon,
              maxResults |-> maxResults, phase |-> "debouncing",
              within |-> PendingTimers(ss),
              matches |-> <<>>, summaries |-> <<>>, fetches |-> <<>>,
              result |-> Undefined])

\* the index the page holds once loadInitialData has set allPokemonList
AllPokemonList == Index

\* page.tsx handleSearch(query) up to its await
HandleSearch(query) ==
  /\ searchTerm' = query
  /\ IF Trim(query) = <<>>
     THEN /\ searchResults' = <<>>
          /\ resultsFrom' = 0
          /\ UNCHANGED <<searching, searchVars>>
     ELSE /\ Len(searches) < MaxSearches
          /\ searching' = TRUE
          /\ searches' = SearchPokemon(searches, searchTimeout, "handleSearch",
                                       query, AllPokemonList, SEARCH_LIMIT)
          /\ searchTimeout' = Len(searches) + 1
          /\ UNCHANGED <<searchResults, resultsFrom>>
  /\ UNCHANGED <<pokemonCache, summaryCache, listCache, pendingRequests, requests,
                 calls, batches, preloads, clears, lruVars>>

\* searchPokemon called by another caller than the page
CallSearchPokemon(query, maxResults) ==
  /\ Len(searches) < MaxSearches
  /\ searches' = SearchPokemon(searches, searchTimeout, "direct",
                               query, Index, maxResults)
  /\ searchTimeout' = Len(searches) + 1
  /\ UNCHANGED <<pokemonCache, summaryCache, listCache, pendingRequests, requests,
                 calls, batches, preloads, clears, pageVars, lruVars>>

\* searchPokemon called with an index of the caller's own
CallSearchPokemonOn(query, allPokemon, maxResults) ==
  /\ searches' = SearchPokemon(searches, searchTimeout, "direct",
                               query, allPokemon, maxResults)
  /\ searchTimeout' = Len(searches) + 1
  /\ UNCHANGED <<pokemonCache, summaryCache, listCache, pendingRequests, requests,
                 calls, batches, preloads, clears, pageVars, lruVars>>

\* the timer of search n fires: the callback given to setTimeout
SearchTimerFires(n) ==
  /\ n \in 1..Len(searches)
  /\ searches[n].phase = "debouncing"
  /\ LET s == searches[n]
     IN  IF Trim(s.query) = <<>>
         THEN /\ searches' = [searches EXCEPT ![n].phase = "settled", ![n].result = <<>>]
              /\ RunPage(searches, searches')
              /\ UNCHANGED <<pokemonCache, summaryCache, listCache,
                             pendingRequests, requests>>
         ELSE LET normalized == Trim(ToLowerCase(s.query))
                  matches == Slice(Filter(s.allPokemon, normalized),
                                   0, s.maxResults)
                  part == Partition(summaryCache, matches)
                  m == MapFetchPokemonFromUrl(Store, part.toFetch)
                  s1 == [s EXCEPT
                           !.phase = "resolving", !.matches = matches,
                           !.summaries = part.summaries,
                           !.fetches = [k \in 1..Len(part.toFetch) |->
                                          [item |-> part.toFetch[k],
                                           promise |-> m.promises[k],
                                           summary |-> Undefined]]]
                  r == RunSearch(part.summaryCache, s1, m.st.requests)
              IN  /\ Len(m.st.requests) <= MaxRequests
                  /\ SetStore(m.st)
                  /\ summaryCache' = r.summaryCache
                  /\ searches' = [searches EXCEPT ![n] = r.search]
                  /\ RunPage(searches, searches')
  /\ UNCHANGED <<calls, batches, preloads, clears, searchTimeout, searchTerm, lruVars>>

(***************************************************************************)
(* Action: apiClient.get of operation r settles (after the interceptor's   *)
(* retries, if any), and every continuation waiting for it runs.           *)
(***************************************************************************)
SettleCalls(cs, r, reqs) ==
  [c \in 1..Len(cs) |->
     IF cs[c].req = r
     THEN [cs[c] EXCEPT !.result = Settlement(Following(r), reqs)]
     ELSE cs[c]]

\* the store st left by the request promise of r that has just settled
\* is written back and every continuation waiting for r runs
Deliver(st, r) ==
  /\ SetStore(st)
  /\ calls' = SettleCalls(calls, r, st.requests)
  /\ batches' = [b \in 1..Len(batches) |-> RunBatch(batches[b], st.requests)]
  /\ preloads' = [p \in 1..Len(preloads) |-> RunPreload(preloads[p], st.requests)]
  /\ LET ss == RunSearches(summaryCache, searches, 1, st.requests)
     IN  /\ summaryCache' = ss.summaryCache
         /\ searches' = ss.searches
         /\ RunPage(searches, ss.searches)
  /\ UNCHANGED <<clears, searchTimeout, searchTerm, lruVars>>

\* the logical read of r ends: with a response (ok) or with the error the
\* interceptor rejects with
NetSettle(r, ok) ==
  /\ r \in UnsettledRequests(requests)
  /\ requests[r].phase = "inflight"
  /\ Deliver(SettleRequest(Store, r, ok), r)

(***************************************************************************)
(* The attempts of one read: apiClient with its response interceptor.      *)
(* An attempt ends with a response, with the error of a response whose     *)
(* status is not 2xx, or with the error of the request timeout, which      *)
(* carries no response.  NetSettle above is a read seen as one step; the   *)
(* actions below are the same read attempt by attempt.                     *)
(***************************************************************************)
Response(status) == [status |-> status]

\* a 2xx response
Success == [kind |-> "response", response |-> Response(200), code |-> "OK"]

\* the AxiosError of a response with an error status
HttpError(status) ==
  [kind |-> "error", response |-> Response(status), code |-> "ERR_BAD_RESPONSE"]

\* the AxiosError of an attempt that exceeded `timeout`: it has no response
TimeoutError ==
  [kind |-> "error", response |-> Undefined, code |-> "ECONNABORTED"]

ErrorStatuses == {404, 500}

AttemptOutcomes ==
  {Success, TimeoutError} \cup {HttpError(st) : st \in ErrorStatuses}

\* error.response?.status >= 500: undefined >= 500 is false
IsServerError(error) ==
  IF error.response = Undefined THEN FALSE
  ELSE error.response.status >= ServerErrorFloor

\* the interceptor with `config.retry <= 3`
Interceptor_FourRetries(retry, error) ==
  IF retry <= MaxRetries /\ IsServerError(error)
  THEN [again |-> TRUE, retry |-> retry + 1,
        delay |-> (BackoffBase ^ (retry + 1)) * MsPerSecond]
  ELSE [again |-> FALSE, retry |-> retry, delay |-> 0]

\* the interceptor retrying every error that carries a response
Interceptor_RetryAnyStatus(retry, error) ==
  IF retry < MaxRetries /\ error.response # Undefined
  THEN [again |-> TRUE, retry |-> retry + 1,
        delay |-> (BackoffBase ^ (retry + 1)) * MsPerSecond]
  ELSE [again |-> FALSE, retry |-> retry, delay |-> 0]

\* the rejection handler of the response interceptor, for config.retry = retry:
\* either it counts a retry and waits delay ms before apiClient(config), or it
\* rejects with the error
Interceptor(retry, error) ==
  IF retry < MaxRetries /\ IsServerError(error)
  THEN [again |-> TRUE, retry |-> retry + 1,
        delay |-> (BackoffBase ^ (retry + 1)) * MsPerSecond]
  ELSE [again |-> FALSE, retry |-> retry, delay |-> 0]

\* an attempt of operation r ends with outcome
Respond(r, outcome) ==
  /\ r \in UnsettledRequests(requests)
  /\ requests[r].phase = "inflight"
  /\ LET logged == [Store EXCEPT !.requests[r].attempts = Append(@, outcome)]
         i == Interceptor(requests[r].retry, outcome)
     IN  IF outcome.kind = "response"
         THEN Deliver(SettleRequest(logged, r, TRUE), r)
         ELSE IF i.again
         THEN /\ requests' = [logged.requests EXCEPT
                                ![r].retry = i.retry,
                                ![r].phase = "backoff",
                                ![r].delays = Append(@, i.delay)]
              /\ UNCHANGED <<pokemonCache, summaryCache, listCache, pendingRequests,
                             calls, batches, preloads, clears, searchVars, pageVars, lruVars>>
         ELSE Deliver(SettleRequest(logged, r, FALSE), r)

\* the timer of the interceptor fires: return apiClient(config)
BackoffFires(r) ==
  /\ r \in UnsettledRequests(requests)
  /\ requests[r].phase = "backoff"
  /\ requests' = [requests EXCEPT ![r].phase = "inflight"]
  /\ UNCHANGED <<pokemonCache, summaryCache, listCache, pendingRequests,
                 calls, batches, preloads, clears, searchVars, pageVars, lruVars>>

(***************************************************************************)
(* Spec: the data-access layer under arbitrary calls and network timing.   *)
(***************************************************************************)
LruIdle ==
  /\ lru = <<>>
  /\ lruMax = 1
  /\ lruTouch = [k \in {} |-> 0]
  /\ lruProbe = [k \in {} |-> 0]
  /\ lruClock = 0
  /\ lruLast = [op |-> "new"]

Init ==
  /\ pokemonCache = <<>>
  /\ summaryCache = <<>>
  /\ listCache = <<>>
  /\ pendingRequests = <<>>
  /\ requests = <<>>
  /\ calls = <<>>
  /\ batches = <<>>
  /\ preloads = <<>>
  /\ clears = 0
  /\ searches = <<>>
  /\ searchTimeout = 0
  /\ searchTerm = <<>>
  /\ searchResults = <<>>
  /\ searching = FALSE
  /\ resultsFrom = 0
  /\ LruIdle

\* the item lists the page may pass: references of the index, in any order,
\* with repetitions, possibly none
ItemLists == UNION {[1..n -> {Index[i] : i \in Entities}] : n \in 0..MaxBatchLen}

\* what the user types
Queries == {<<"p">>, <<" ", "P", "I">>, <<" ">>, <<>>}

\* the number of calls made so far
UiCalls == Len(calls) + Len(batches) + Len(preloads) + Len(searches) + clears

\* Spec: every operation of the layer, at most MaxUiCalls calls in all
Next ==
  \/ \E limit \in {DefaultLimit} : UiCalls < MaxUiCalls /\ CallFetchPokemonList(limit)
  \/ \E id \in Entities : UiCalls < MaxUiCalls /\ CallFetchPokemonDetails(id)
  \/ \E i \in Entities : UiCalls < MaxUiCalls /\ CallFetchPokemonFromUrl(Index[i].url)
  \/ \E items \in ItemLists, c \in 1..MaxConcurrency :
       UiCalls < MaxUiCalls /\ CallBatchFetchPokemon(items, c)
  \/ UiCalls < MaxUiCalls /\ CallPreloadEssentialData
  \/ \E query \in Queries : UiCalls < MaxUiCalls /\ HandleSearch(query)
  \/ \E n \in 1..Len(searches) : SearchTimerFires(n)
  \/ UiCalls < MaxUiCalls /\ ClearCache
  \/ \E r \in 1..Len(requests), ok \in BOOLEAN : NetSettle(r, ok)

Spec == Init /\ [][Next]_vars

\* SpecFetch: the three fetch functions, clearCache and the network
NextFetch ==
  \/ \E limit \in {DefaultLimit} : UiCalls < MaxFetchOps /\ CallFetchPokemonList(limit)
  \/ \E id \in Entities : UiCalls < MaxFetchOps /\ CallFetchPokemonDetails(id)
  \/ \E i \in Entities :
       UiCalls < MaxFetchOps /\ CallFetchPokemonFromUrl(Index[i].url)
  \/ UiCalls < MaxFetchOps /\ ClearCache
  \/ \E r \in 1..Len(requests), ok \in BOOLEAN : NetSettle(r, ok)

SpecFetch == Init /\ [][NextFetch]_vars

\* SpecBatch: batchFetchPokemon beside direct fetches by locator
NextBatch ==
  \/ \E items \in ItemLists, c \in 1..MaxConcurrency :
       UiCalls < MaxBatchOps /\ CallBatchFetchPokemon(items, c)
  \/ \E i \in Entities :
       UiCalls < MaxBatchOps /\ CallFetchPokemonFromUrl(Index[i].url)
  \/ \E r \in 1..Len(requests), ok \in BOOLEAN : NetSettle(r, ok)

SpecBatch == Init /\ [][NextBatch]_vars

\* the item lists a caller gives again after a failure: a page of the index
\* and one item of it
RebatchLists == {Index, <<Index[2]>>}

\* SpecRebatch: batchFetchPokemon called again on the items of an earlier
\* call
NextRebatch ==
  \/ \E items \in RebatchLists, c \in 1..MaxConcurrency :
       Len(batches) < MaxRebatches /\ BatchFetchPokemon(items, c)
  \/ \E r \in 1..Len(requests), ok \in BOOLEAN : NetSettle(r, ok)

SpecRebatch == Init /\ [][NextRebatch]_vars

\* SpecSearch: searchPokemon called by the page and by other callers
NextSearch ==
  \/ \E query \in Queries : HandleSearch(query)
  \/ \E query \in Queries, maxResults \in {1, SEARCH_LIMIT} :
       CallSearchPokemon(query, maxResults)
  \/ \E n \in 1..Len(searches) : SearchTimerFires(n)
  \/ \E r \in 1..Len(requests), ok \in BOOLEAN : NetSettle(r, ok)

SpecSearch == Init /\ [][NextSearch]_vars

\* SpecPreload: preloadEssentialData beside direct fetches of an entity by
\* id and by locator
NextPreload ==
  \/ UiCalls < MaxPreloadOps /\ CallPreloadEssentialData
  \/ \E id \in Entities : UiCalls < MaxPreloadOps /\ CallFetchPokemonDetails(id)
  \/ \E i \in Entities :
       UiCalls < MaxPreloadOps /\ CallFetchPokemonFromUrl(Index[i].url)
  \/ \E r \in 1..Len(requests), ok \in BOOLEAN : NetSettle(r, ok)

SpecPreload == Init /\ [][NextPreload]_vars

\* SpecStats: the index fetch, searches and clearCache, which between them
\* fill and empty the three caches and the registry
NextStats ==
  \/ \E limit \in {DefaultLimit} : UiCalls < MaxStatsOps /\ CallFetchPokemonList(limit)
  \/ \E query \in Queries : UiCalls < MaxStatsOps /\ HandleSearch(query)
  \/ \E n \in 1..Len(searches) : SearchTimerFires(n)
  \/ UiCalls < MaxStatsOps /\ ClearCache
  \/ \E r \in 1..Len(requests), ok \in BOOLEAN : NetSettle(r, ok)

SpecStats == Init /\ [][NextStats]_vars

\* PokemonListItem[] values a caller gives to searchPokemon: the index in
\* its order and reversed, with a name written with a capital, with a
\* locator that names the entity
TestIndexes ==
  { Index,
    <<Index[2], Index[1]>>,
    <<[name |-> <<"P", "i">>, url |-> Url(1)], Index[2]>>,
    <<[name |-> Index[2].name, url |-> NameUrl(2)], Index[1]>> }

FilterQueries == {<<"p">>, <<" ", "P", "I">>, <<"a">>, <<"x">>}

\* SpecFilter: searchPokemon on the indexes above
NextFilter ==
  \/ \E query \in FilterQueries, allPokemon \in TestIndexes,
        maxResults \in {1, SEARCH_LIMIT} :
       /\ Len(searches) < MaxFilterSearches
       /\ CallSearchPokemonOn(query, allPokemon, maxResults)
  \/ \E n \in 1..Len(searches) : SearchTimerFires(n)
  \/ \E r \in 1..Len(requests), ok \in BOOLEAN : NetSettle(r, ok)

SpecFilter == Init /\ [][NextFilter]_vars

\* SpecRetry: fetchPokemonDetails with every attempt of its reads
NextRetry ==
  \/ \E id \in Entities :
       CallFetchPokemonDetails(id) /\ Len(requests') <= MaxRetryReads
  \/ \E r \in 1..Len(requests), outcome \in AttemptOutcomes : Respond(r, outcome)
  \/ \E r \in 1..Len(requests) : BackoffFires(r)

SpecRetry == Init /\ [][NextRetry]_vars

(***************************************************************************)
(* SpecLRU: one LRUCache driven by arbitrary get/set/has/clear/size calls. *)
(***************************************************************************)
TestKeys == {<<"k1">>, <<"k2">>, <<"k3">>, <<"k4">>}
TestValues == {[v |-> 1], [v |-> 2]}

NoOp == [op |-> "new", key |-> <<>>, value |-> Undefined, ret |-> Undefined,
         before |-> <<>>]

InitLRU ==
  /\ pokemonCache = <<>>
  /\ summaryCache = <<>>
  /\ listCache = <<>>
  /\ pendingRequests = <<>>
  /\ requests = <<>>
  /\ calls = <<>>
  /\ batches = <<>>
  /\ preloads = <<>>
  /\ clears = 0
  /\ searches = <<>>
  /\ searchTimeout = 0
  /\ searchTerm = <<>>
  /\ searchResults = <<>>
  /\ searching = FALSE
  /\ resultsFrom = 0
  /\ lru = <<>>
  /\ lruMax \in 1..MaxCap
  /\ lruTouch = [k \in TestKeys |-> 0]
  /\ lruProbe = [k \in TestKeys |-> 0]
  /\ lruClock = 0
  /\ lruLast = NoOp

LruGet(k) ==
  /\ lruClock < MaxLruOps
  /\ LET r == LRUGet(lru, k)
     IN  /\ lru' = r.cache
         /\ lruLast' = [op |-> "get", key |-> k, value |-> Undefined,
                        ret |-> r.value, before |-> lru]
         /\ lruTouch' = IF MapHas(lru, k)
                        THEN [lruTouch EXCEPT ![k] = lruClock + 1]
                        ELSE lruTouch
  /\ lruClock' = lruClock + 1
  /\ UNCHANGED <<lruMax, lruProbe, apiVars>>

LruSet(k, v) ==
  /\ lruClock < MaxLruOps
  /\ lru' = LRUSet(lru, lruMax, k, v)
  /\ lruLast' = [op |-> "set", key |-> k, value |-> v, ret |-> Undefined,
                 before |-> lru]
  /\ lruTouch' = [lruTouch EXCEPT ![k] = lruClock + 1]
  /\ lruClock' = lruClock + 1
  /\ UNCHANGED <<lruMax, lruProbe, apiVars>>

LruHas(k) ==
  /\ lruClock < MaxLruOps
  /\ LET r == LRUHasCall(lru, k)
     IN  /\ lru' = r.cache
         /\ lruLast' = [op |-> "has", key |-> k, value |-> Undefined,
                        ret |-> [bool |-> r.value], before |-> lru]
  /\ lruProbe' = IF MapHas(lru, k)
                 THEN [lruProbe EXCEPT ![k] = lruClock + 1]
                 ELSE lruProbe
  /\ lruClock' = lruClock + 1
  /\ UNCHANGED <<lruMax, lruTouch, apiVars>>

LruClear ==
  /\ lruClock < MaxLruOps
  /\ lru' = LRUClear(lru)
  /\ lruLast' = [op |-> "clear", key |-> <<>>, value |-> Undefined,
                 ret |-> Undefined, before |-> lru]
  /\ lruClock' = lruClock + 1
  /\ UNCHANGED <<lruMax, lruTouch, lruProbe, apiVars>>

LruSize ==
  /\ lruClock < MaxLruOps
  /\ lruLast' = [op |-> "size", key |-> <<>>, value |-> Undefined,
                 ret |-> [number |-> LRUSize(lru)], before |-> lru]
  /\ lruClock' = lruClock + 1
  /\ UNCHANGED <<lru, lruMax, lruTouch, lruProbe, apiVars>>

NextLRU ==
  \/ \E k \in TestKeys : LruGet(k)
  \/ \E k \in TestKeys, v \in TestValues : LruSet(k, v)
  \/ \E k \in TestKeys : LruHas(k)
  \/ LruClear
  \/ LruSize

SpecLRU == InitLRU /\ [][NextLRU]_vars

(***************************************************************************)
(* Properties of LRUCache, checked under SpecLRU.                          *)
(***************************************************************************)
\* the entries of m other than key k, in their order
Others(m, k) == SelectSeq(m, LAMBDA e : e.key # k)

\* the present key whose last get-hit or set is the oldest
LeastRecentlyTouched(m) ==
  CHOOSE k \in MapKeys(m) : \A j \in MapKeys(m) : lruTouch[k] <= lruTouch[j]

LastSetNewKeyAtCapacity ==
  /\ lruLast.op = "set"
  /\ ~MapHas(lruLast.before, lruLast.key)
  /\ Len(lruLast.before) = lruMax

LastGetHit == lruLast.op = "get" /\ MapHas(lruLast.before, lruLast.key)

LastGetMiss == lruLast.op = "get" /\ ~MapHas(lruLast.before, lruLast.key)

LastSetPresentKey == lruLast.op = "set" /\ MapHas(lruLast.before, lruLast.key)

\* C6: after any sequence of get, set, has, clear and size calls on a cache
\* built with capacity maxSize, size() <= maxSize.
C6_SizeWithinCapacity == LRUSize(lru) <= lruMax

\* C6 witness: a new key was set into a cache that held exactly maxSize keys
C6_Witness ==
  /\ LastSetNewKeyAtCapacity
  /\ LRUSize(lru) = lruMax
  /\ lruMax = MaxCap

\* C7: set of a key not in a cache that holds exactly its capacity removes
\* exactly one key, the one whose last get-hit or set is the oldest, inserts
\* the new key as most-recently-used and leaves every other entry as it was.
C7_SetEvictsLeastRecentlyTouched ==
  LastSetNewKeyAtCapacity =>
    LET before == lruLast.before
        victim == LeastRecentlyTouched(before)
    IN  /\ MapKeys(lru) = (MapKeys(before) \ {victim}) \cup {lruLast.key}
        /\ Len(lru) = Len(before)
        /\ lru[Len(lru)] = [key |-> lruLast.key, value |-> lruLast.value]
        /\ \A j \in MapKeys(lru) : lruTouch[j] <= lruTouch[lruLast.key]
        /\ Others(lru, lruLast.key) = Others(before, victim)

\* C7 witness: the evicted key was not the first one inserted, because a get
\* or a repeated set had touched that one later
C7_Witness ==
  /\ LastSetNewKeyAtCapacity
  /\ lruMax >= 2
  /\ \E k \in MapKeys(lruLast.before) \cap MapKeys(lru) :
       \E j \in MapKeys(lruLast.before) \ MapKeys(lru) :
         lruTouch[j] < lruTouch[k] /\ lruTouch[j] > 1

\* C8: get on a present key returns its value and makes the key the most
\* recently used (the Map stays ordered by last touch, so the key is evicted
\* after every other key present); get on an absent key returns undefined and
\* changes nothing.
C8_GetPromotes ==
  /\ LastGetHit =>
       /\ lruLast.ret = MapGet(lruLast.before, lruLast.key)
       /\ Len(lru) = Len(lruLast.before)
       /\ lru[Len(lru)] = [key |-> lruLast.key, value |-> lruLast.ret]
       /\ Others(lru, lruLast.key) = Others(lruLast.before, lruLast.key)
  /\ LastGetMiss => lruLast.ret = Undefined /\ lru = lruLast.before
  /\ \A i, j \in 1..Len(lru) :
       i < j => lruTouch[lru[i].key] < lruTouch[lru[j].key]

\* C8 witness: a get hit the key that was next to be evicted
C8_Witness ==
  /\ LastGetHit
  /\ Len(lruLast.before) >= 2
  /\ lruLast.before[1].key = lruLast.key

\* C9: set on a key already present replaces its value and makes it the most
\* recently used, evicts nothing and leaves size() unchanged, also at full
\* capacity.
C9_SetPresentKeepsSize ==
  LastSetPresentKey =>
    /\ LRUSize(lru) = LRUSize(lruLast.before)
    /\ MapKeys(lru) = MapKeys(lruLast.before)
    /\ lru[Len(lru)] = [key |-> lruLast.key, value |-> lruLast.value]
    /\ Others(lru, lruLast.key) = Others(lruLast.before, lruLast.key)

\* C9 witness: the key re-set was the oldest of a full cache and got a new value
C9_Witness ==
  /\ LastSetPresentKey
  /\ Len(lruLast.before) = lruMax
  /\ lruMax >= 2
  /\ lruLast.before[1].key = lruLast.key
  /\ lruLast.before[1].value # lruLast.value

(***************************************************************************)
(* Properties of the registry, the batch fetcher and the search pipeline.  *)
(***************************************************************************)
\* C1: for each logical key at most one network operation is unsettled,
\* whatever calls of the fetch functions, batchFetchPokemon, searchPokemon
\* and clearCache produced the state.
C1_AtMostOneOperationPerKey ==
  \A r1, r2 \in UnsettledRequests(requests) :
    requests[r1].key = requests[r2].key => r1 = r2

\* C2: callers that request a key while it is not cached and before the
\* first operation for it has settled start no second operation: they follow
\* the same operation and settle with the identical value or error.
C2_CallersShareOneOperation ==
  \A c1, c2 \in 1..Len(calls) :
    (/\ c1 < c2
     /\ calls[c1].key = calls[c2].key
     /\ calls[c1].req # 0
     /\ calls[c2].req # 0
     /\ calls[c1].req \in calls[c2].live)
    => /\ ~calls[c2].started
       /\ calls[c2].req = calls[c1].req
       /\ calls[c2].result = calls[c1].result

\* C3: the number of unsettled network operations started by one
\* batchFetchPokemon call never exceeds its concurrency.
C3_BatchWithinConcurrency ==
  \A b \in 1..Len(batches) :
    Cardinality(batches[b].started \cap UnsettledRequests(requests))
      <= batches[b].concurrency

\* C4: no fetch of a chunk is issued before every fetch of the chunk before
\* it has settled.
C4_ChunksOneAfterTheOther ==
  \A b \in 1..Len(batches) :
    \A n \in 1..Len(batches[b].chunks) : batches[b].chunks[n].prevUnsettled = {}

\* C5: the result of an older search never replaces the result of a newer
\* one: once a newer search of the page has settled, searchResults is never
\* the result of an earlier search.
C5_NewestSearchWins ==
  \A i, j \in 1..Len(searches) :
    (/\ i < j
     /\ searches[i].caller = "handleSearch"
     /\ searches[j].caller = "handleSearch"
     /\ searches[j].phase = "settled")
    => resultsFrom # i

\* C10: no registry entry refers to an operation that has settled, and when
\* every started operation has settled the registry is empty.
C10_RegistryHoldsOnlyUnsettled ==
  /\ \A i \in 1..Len(pendingRequests) :
       requests[pendingRequests[i].value.req].status = "pending"
  /\ UnsettledRequests(requests) = {} => Len(pendingRequests) = 0

\* C10 witness: operations were registered, one failed and one succeeded, all
\* have settled, and the registry is empty
C10_Witness ==
  /\ \E r \in 1..Len(requests) : requests[r].status = "rejected"
  /\ \E r \in 1..Len(requests) : requests[r].status = "fulfilled"
  /\ UnsettledRequests(requests) = {}
  /\ Len(pendingRequests) = 0

(***************************************************************************)
(* Properties of the read-through path of the fetch functions.             *)
(***************************************************************************)
\* C11: a fetchPokemonDetails(k) issued after an earlier fetchPokemonDetails(k)
\* has succeeded, with k still in the cache and no clearCache in between,
\* returns the value object the earlier call returned, starts no network
\* operation and adds no registry entry.
C11_SecondFetchFromCache ==
  \A c1, c2 \in 1..Len(calls) :
    (/\ c1 < c2
     /\ calls[c1].fn = "fetchPokemonDetails"
     /\ calls[c2].fn = "fetchPokemonDetails"
     /\ calls[c1].key = calls[c2].key
     /\ calls[c1].result.status = "fulfilled"
     /\ calls[c1].req \notin calls[c2].live
     /\ calls[c2].cached
     /\ calls[c1].clears = calls[c2].clears)
    => /\ calls[c2].req = 0
       /\ ~calls[c2].started
       /\ ~calls[c2].registered
       /\ calls[c2].result = calls[c1].result

\* the cache a fetch function of the given kind reads and writes
CacheOf(fn, pc, lc) == IF fn = "list" THEN lc ELSE pc

\* C12: in the step in which a network read succeeds, its result is in the
\* cache under the logical key when the registry entry is gone and the
\* waiters have the value: the key is cached with exactly the value the
\* waiters receive, and no registry entry refers to the operation.
C12_CachedBeforeReleased ==
  [][\A r \in 1..Len(requests) :
       (requests[r].status = "pending" /\ requests'[r].status = "fulfilled")
       => LET q == requests'[r]
              cache == CacheOf(q.fn, pokemonCache', listCache')
          IN  /\ LRUHas(cache, q.key)
              /\ MapGet(cache, q.key) = q.value
              /\ \A i \in 1..Len(pendingRequests') : pendingRequests'[i].value.req # r
              /\ \A c \in 1..Len(calls') :
                   calls'[c].req = r => calls'[c].result = Fulfilled(q.value)]_vars

\* C12 witness: a read has succeeded, a caller has its value, the key is
\* cached with that value and is no longer registered
C12_Witness ==
  \E r \in 1..Len(requests) :
    LET q == requests[r]
        cache == CacheOf(q.fn, pokemonCache, listCache)
    IN  /\ q.status = "fulfilled"
        /\ LRUHas(cache, q.key)
        /\ MapGet(cache, q.key) = q.value
        /\ ~MapHas(pendingRequests, q.key)
        /\ \E c \in 1..Len(calls) :
             calls[c].req = r /\ calls[c].result = Fulfilled(q.value)

(***************************************************************************)
(* Properties of the retries of one read.                                  *)
(***************************************************************************)
\* the delays, in ms, before the first, second and third retry
BackoffSchedule == <<2000, 4000, 8000>>

\* C13: an attempt that exceeds the timeout is retried under the accounting
\* of a server error: unless three retries were already made, the
\* interceptor schedules the next retry, with the delay of the schedule.
C13_TimeoutIsRetried ==
  \A r \in 1..Len(requests) :
    \A k \in 1..Len(requests[r].attempts) :
      (requests[r].attempts[k] = TimeoutError /\ k <= Len(BackoffSchedule))
      => /\ Len(requests[r].delays) >= k
         /\ requests[r].delays[k] = BackoffSchedule[k]

\* C14: a read whose attempts fail with a server error makes the initial
\* attempt and at most 3 retries, waits 2 s, 4 s and 8 s before them, stops at
\* the first successful attempt, and rejects only after the third retry failed.
C14_ServerErrorRetries ==
  \A r \in 1..Len(requests) :
    LET q == requests[r]
        n == Len(q.attempts)
    IN  /\ n <= 4
        /\ Len(q.delays) <= 3
        /\ q.delays = SubSeq(BackoffSchedule, 1, Len(q.delays))
        /\ \A k \in 1..n :
             IsServerError(q.attempts[k])
             => /\ k <= 3 => Len(q.delays) >= k
                /\ k = 4 => q.status = "rejected"
        /\ \A k \in 1..n :
             q.attempts[k] = Success
             => k = n /\ q.status = "fulfilled" /\ Len(q.delays) = k - 1
        /\ (q.status = "rejected" /\ \A k \in 1..n : IsServerError(q.attempts[k]))
           => n = 4

\* C14 witness: a read was rejected after four attempts that failed with a
\* server error, having waited 2 s, 4 s and 8 s, and its caller has the error
C14_Witness ==
  \E r \in 1..Len(requests) :
    /\ requests[r].status = "rejected"
    /\ requests[r].attempts = [k \in 1..4 |-> HttpError(500)]
    /\ requests[r].delays = <<2000, 4000, 8000>>
    /\ \E c \in 1..Len(calls) :
         calls[c].req = r /\ calls[c].result.status = "rejected"

\* C15: an attempt that fails with a status below 500 is the last attempt of
\* its read: the read rejects at once, no retry is counted and no delay is
\* waited for after it; when it is the first attempt the read made exactly
\* one attempt.
C15_ClientErrorNotRetried ==
  \A r \in 1..Len(requests) :
    LET q == requests[r]
    IN  \A k \in 1..Len(q.attempts) :
          (/\ q.attempts[k].kind = "error"
           /\ q.attempts[k].response # Undefined
           /\ q.attempts[k].response.status < 500)
          => /\ k = Len(q.attempts)
             /\ q.status = "rejected"
             /\ Len(q.delays) = k - 1
             /\ q.retry = k - 1

\* C15 witness: a read was rejected after one attempt that failed with 404,
\* without a delay, and its caller has the error
C15_Witness ==
  \E r \in 1..Len(requests) :
    /\ requests[r].status = "rejected"
    /\ requests[r].attempts = <<HttpError(404)>>
    /\ requests[r].delays = <<>>
    /\ \E c \in 1..Len(calls) :
         calls[c].req = r /\ calls[c].result.status = "rejected"

(***************************************************************************)
(* Properties of failed fetches.                                           *)
(***************************************************************************)
\* the direct calls of the single-entity fetch functions
EntityCalls ==
  {c \in 1..Len(calls) :
     calls[c].fn \in {"fetchPokemonDetails", "fetchPokemonFromUrl"}}

\* C16: a failed single-entity fetch gives its error to its caller and to
\* every caller that joined it, the failed operation has written to no cache
\* and has no registry entry, and the first fetch of the same key issued
\* after the failure starts a new network operation.
C16_FailureSurfacesAndIsNotCached ==
  /\ \A r \in 1..Len(requests) :
       requests[r].status = "rejected"
       => /\ \A c \in 1..Len(calls) :
               calls[c].req = r
               => calls[c].result = [status |-> "rejected", value |-> ErrorOf(r)]
          /\ \A i \in 1..Len(pokemonCache) : pokemonCache[i].value.obj # r
          /\ \A i \in 1..Len(listCache) : listCache[i].value.obj # r
          /\ \A i \in 1..Len(pendingRequests) : pendingRequests[i].value.req # r
  /\ \A c1, c2 \in EntityCalls :
       (/\ c1 < c2
        /\ calls[c1].key = calls[c2].key
        /\ calls[c1].result.status = "rejected"
        /\ calls[c1].req \notin calls[c2].live
        /\ \A c \in EntityCalls :
             (c1 < c /\ c < c2 /\ calls[c].key = calls[c1].key)
             => calls[c1].req \in calls[c].live)
       => /\ calls[c2].started
          /\ calls[c2].req # calls[c1].req

(***************************************************************************)
(* Properties of the result of batchFetchPokemon.                          *)
(***************************************************************************)
\* the ids of a sequence of entries, as a bag: id -> number of entries
IdCount(entries, id) ==
  Cardinality({k \in 1..Len(entries) : entries[k].id = id})

\* every operation a batch waits for
BatchReqs(b) ==
  UNION {PromiseReqs(b.chunks[n].promises) : n \in 1..Len(b.chunks)}

\* C17: a batch whose fetches all succeeded returns one entry for every item
\* given, in ascending order of id, whatever the order of the items, the
\* concurrency and the order in which the reads completed.
C17_BatchSortedById ==
  \A b \in 1..Len(batches) :
    batches[b].status = "fulfilled"
    => LET v == batches[b].value
           items == batches[b].items
       IN  /\ Len(v) = Len(items)
           /\ \A i \in Entities :
                IdCount(v, i) =
                  Cardinality({k \in 1..Len(items) : items[k].url = Url(i)})
           /\ \A j, k \in 1..Len(v) : j < k => v[j].id <= v[k].id

\* C17 witness: the items were given in descending order of id, the reads
\* completed in that order too, and the batch returned ids 1, 2
C17_Witness ==
  \E b \in 1..Len(batches) :
    /\ batches[b].status = "fulfilled"
    /\ batches[b].items = <<Index[2], Index[1]>>
    /\ Len(batches[b].results) = 2
    /\ batches[b].results[1].id = 2
    /\ batches[b].results[2].id = 1
    /\ batches[b].results[1].obj < batches[b].results[2].obj
    /\ batches[b].value[1].id = 1
    /\ batches[b].value[2].id = 2

\* C18: when the fetch of one item of a batch has failed the batch is
\* rejected, with the error of a failed fetch of its items, and has no
\* result, whatever became of its other fetches.
C18_BatchFailsAsAWhole ==
  \A b \in 1..Len(batches) :
    LET failed == {r \in BatchReqs(batches[b]) : requests[r].status = "rejected"}
    IN  /\ failed # {}
          => /\ batches[b].status = "rejected"
             /\ \E r \in failed : batches[b].value = ErrorOf(r)
        /\ batches[b].status = "rejected" => failed # {}

\* C18 witness: one item of a batch was fetched, the other failed, and the
\* batch is rejected with the error of the failed one
C18_Witness ==
  \E b \in 1..Len(batches) :
    \E r1, r2 \in BatchReqs(batches[b]) :
      /\ requests[r1].status = "fulfilled"
      /\ requests[r2].status = "rejected"
      /\ batches[b].status = "rejected"
      /\ batches[b].value = ErrorOf(r2)

(***************************************************************************)
(* Properties of the debounce of searchPokemon.                            *)
(***************************************************************************)
\* the searches that ran their filter/resolve pass
Passed(ss) == {n \in 1..Len(ss) : ss[n].phase \in {"resolving", "settled"}}

\* C19: a call of searchPokemon that is followed by another call before its
\* debounce interval has elapsed never runs its filter/resolve pass: it
\* filters nothing, fetches nothing and starts no network read; at most one
\* timer is pending, that of the last call, so that of a run of such calls
\* only the last one passes.
C19_OnePassPerBurst ==
  /\ \A m \in 1..Len(searches) :
       \A n \in searches[m].within :
         /\ n \notin Passed(searches)
         /\ searches[n].matches = <<>>
         /\ searches[n].fetches = <<>>
         /\ searches[n].result = Undefined
  /\ PendingTimers(searches) \subseteq {Len(searches)}
  /\ \A r \in 1..Len(requests) :
       \E n \in Passed(searches) :
         /\ \A m \in 1..Len(searches) : n \notin searches[m].within
         /\ \E k \in 1..Len(searches[n].fetches) :
              searches[n].fetches[k].promise.req = r

\* C19 witness: the second call came before the timer of the first fired;
\* the first never passed, the second passed, read from the network and
\* resolved with its matches
C19_Witness ==
  /\ Len(searches) = 2
  /\ searches[2].within = {1}
  /\ searches[1].phase = "cancelled"
  /\ searches[2].phase = "settled"
  /\ Len(searches[2].result) > 0
  /\ Len(requests) > 0
  /\ Passed(searches) = {2}

\* C20: searchPokemon called with an empty or whitespace-only query has
\* resolved to the empty sequence as soon as the call returns, without a
\* pending debounce timer.
C20_BlankQueryResolvesAtOnce ==
  \A n \in 1..Len(searches) :
    Trim(searches[n].query) = <<>>
    => /\ searches[n].phase = "settled"
       /\ searches[n].result = <<>>

(***************************************************************************)
(* C21.  The filter of searchPokemon.                                      *)
(***************************************************************************)
\* the searches whose timer callback ran past the blank test
Filtered(ss) ==
  {n \in 1..Len(ss) : ss[n].phase \in {"resolving", "settled"}
                       /\ Trim(ss[n].query) # <<>>}

\* the positions of allPokemon whose name, in lower case, contains the
\* trimmed query, in lower case
CaseBlindHits(query, allPokemon) ==
  {i \in 1..Len(allPokemon) :
     Includes(ToLowerCase(allPokemon[i].name), ToLowerCase(Trim(query)))}

\* C21: the matches of a search are exactly the references of the index
\* whose name contains the trimmed query, compared without regard to case
\* on both sides, in the order of the index, and only the first maxResults
\* of them.
C21_FilterIsCaseBlindAndCapped ==
  \A n \in Filtered(searches) :
    LET s == searches[n]
        hits == CaseBlindHits(s.query, s.allPokemon)
        kept == {i \in hits : Cardinality({j \in hits : j < i}) < s.maxResults}
    IN  /\ Len(s.matches) = Cardinality(kept)
        /\ \A k \in 1..Len(s.matches) :
             \E i \in kept : /\ Cardinality({j \in kept : j < i}) = k - 1
                             /\ s.matches[k] = s.allPokemon[i]

(***************************************************************************)
(* C22.  A failed detail fetch inside a search.                            *)
(***************************************************************************)
\* the id a locator numbers, 0 when it numbers none
NumberedId(url) ==
  IF \E i \in Entities : url = Url(i)
  THEN CHOOSE i \in Entities : url = Url(i)
  ELSE 0

\* the fetches of search s whose promise was rejected
FailedFetches(s) ==
  {k \in 1..Len(s.fetches) :
     Settlement(s.fetches[k].promise, requests).status = "rejected"}

\* C22: a match whose detail fetch failed is in the result as a summary
\* with exactly the name and the locator of the index reference and the id
\* its locator numbers (0 when it numbers none), without image and types;
\* the search does not fail: it is settled with a sequence as soon as none
\* of its fetches is pending, and the sequence has one summary per match.
C22_FailedFetchGivesMinimalSummary ==
  \A n \in Filtered(searches) :
    LET s == searches[n]
    IN  /\ s.phase = "resolving" =>
             \E k \in 1..Len(s.fetches) :
               Settlement(s.fetches[k].promise, requests).status = "pending"
        /\ s.phase = "settled" =>
             /\ Len(s.result) = Len(s.matches)
             /\ Len(s.matches) = Len(s.summaries) + Len(s.fetches)
             /\ \A k \in FailedFetches(s) :
                  LET item == s.fetches[k].item
                  IN  \E j \in 1..Len(s.result) :
                        s.result[j] = [id |-> NumberedId(item.url),
                                       name |-> item.name, url |-> item.url]

\* a search settled although the fetch of a reference with a numbered
\* locator and the fetch of one with a named locator both failed
C22_Witness ==
  \E n \in Filtered(searches) :
    /\ searches[n].phase = "settled"
    /\ \E k \in FailedFetches(searches[n]) :
         NumberedId(searches[n].fetches[k].item.url) = 0
    /\ \E k \in FailedFetches(searches[n]) :
         NumberedId(searches[n].fetches[k].item.url) # 0

(***************************************************************************)
(* C23.  The order of a search result.                                     *)
(***************************************************************************)
\* the summaries of settled search s before the sort: the cached ones,
\* then the fetched ones in the order of toFetch
Unsorted(s) == s.summaries \o [k \in 1..Len(s.fetches) |-> s.fetches[k].summary]

\* C23: the sequence a search resolves with has, at position k, the summary
\* of the k-th match of the filtered index, whether the summary came from
\* the summary cache or from a fetch and in whatever order the fetches
\* completed; summaries of the same match position are in ascending id.
C23_ResultInMatchOrder ==
  \A n \in Filtered(searches) :
    LET s == searches[n]
    IN  s.phase = "settled" =>
          /\ Len(s.result) = Len(s.matches)
          /\ \A k \in 1..Len(s.result) :
               /\ s.result[k].name = s.matches[k].name
               /\ s.result[k].url = s.matches[k].url
          /\ \A j, k \in 1..Len(s.result) :
               (j < k /\ s.result[j].name = s.result[k].name)
                 => s.result[j].id <= s.result[k].id

\* a settled search that took a summary from the cache for a later match
\* and fetched an earlier one: the sort changed the order
C23_Witness ==
  \E n \in Filtered(searches) :
    /\ searches[n].phase = "settled"
    /\ searches[n].summaries # <<>>
    /\ searches[n].fetches # <<>>
    /\ searches[n].result # Unsorted(searches[n])

(***************************************************************************)
(* C24.  The resolve step of a search: cache first, then fetch.            *)
(***************************************************************************)
\* the network operations started by the step
NewRequests == (Len(requests) + 1)..Len(requests')

\* search n runs its resolve step in this step
Resolves(n) ==
  /\ n \in 1..Len(searches)
  /\ searches[n].phase = "debouncing"
  /\ searches'[n].phase \in {"resolving", "settled"}
  /\ Trim(searches[n].query) # <<>>

\* fetch k of search n gets its summary from a fulfilled read in this step
Projects(n, k) ==
  /\ n \in 1..Len(searches')
  /\ k \in 1..Len(searches'[n].fetches)
  /\ searches'[n].fetches[k].summary # Undefined
  /\ (searches[n].phase = "resolving" => searches[n].fetches[k].summary = Undefined)
  /\ searches[n].phase # "settled"
  /\ Settlement(searches'[n].fetches[k].promise, requests').status = "fulfilled"

\* C24: in the resolve step a match whose summary is in the summary cache
\* is answered with the cached summary and no network operation is started
\* for it; a match that is not cached is fetched by its locator, and when
\* the fetch succeeds its entry is projected to a summary that is put in
\* the summary cache; a search whose matches are all cached starts no
\* network operation.
C24_CachedFirstElseFetch ==
  [][ /\ \A n \in 1..Len(searches) :
           Resolves(n) =>
             LET s == searches'[n]
                 cached == {m \in 1..Len(s.matches) :
                              LRUHas(summaryCache, SummaryKey(s.matches[m].name))}
             IN  /\ \A m \in cached :
                      /\ \E j \in 1..Len(s.summaries) :
                           s.summaries[j] =
                             LRUGet(summaryCache, SummaryKey(s.matches[m].name)).value
                      /\ \A r \in NewRequests :
                           requests'[r].key # UrlKey(s.matches[m].url)
                 /\ \A m \in (1..Len(s.matches)) \ cached :
                      \E k \in 1..Len(s.fetches) :
                        /\ s.fetches[k].item = s.matches[m]
                        /\ LET p == s.fetches[k].promise
                           IN  IF p.req = 0
                               THEN LRUHas(pokemonCache, UrlKey(s.matches[m].url))
                               ELSE requests'[p.req].key = UrlKey(s.matches[m].url)
                 /\ Len(s.fetches) = Len(s.matches) - Cardinality(cached)
                 /\ Len(s.summaries) = Cardinality(cached)
                 /\ (cached = 1..Len(s.matches) => NewRequests = {})
      /\ \A n \in 1..Len(searches') :
           \A k \in 1..Len(searches'[n].fetches) :
           Projects(n, k) =>
             LET f == searches'[n].fetches[k]
                 key == SummaryKey(f.item.name)
             IN  /\ f.summary = SummaryOf(Settlement(f.promise, requests').value, f.item)
                 /\ LRUHas(summaryCache', key)
                 /\ LRUGet(summaryCache', key).value = f.summary
    ]_vars

\* a search whose matches were all in the summary cache settled without
\* any fetch, after a search that fetched and projected two entries
C24_Witness ==
  \E n, m \in Filtered(searches) :
    /\ searches[n].phase = "settled"
    /\ searches[n].matches # <<>>
    /\ searches[n].fetches = <<>>
    /\ Len(searches[m].fetches) = 2
    /\ searches[m].phase = "settled"
    /\ FailedFetches(searches[m]) = {}

(***************************************************************************)
(* C25.  clearCache and getCacheStats.                                     *)
(***************************************************************************)
NoEntries == [pokemon |-> 0, summaries |-> 0, lists |-> 0, pending |-> 0]

\* C25: the step of clearCache leaves the entry cache, the summary cache,
\* the index-page cache and the registry empty, and getCacheStats called
\* right after it returns 0 for the four counts; in every state
\* getCacheStats returns the number of keys each of the four holds.
C25_ClearEmptiesAndStatsAreCurrent ==
  [][ /\ clears' = clears + 1 =>
           /\ GetCacheStats' = NoEntries
           /\ MapKeys(pokemonCache') = {}
           /\ MapKeys(summaryCache') = {}
           /\ MapKeys(listCache') = {}
           /\ MapKeys(pendingRequests') = {}
      /\ GetCacheStats' = [pokemon |-> Cardinality(MapKeys(pokemonCache')),
                           summaries |-> Cardinality(MapKeys(summaryCache')),
                           lists |-> Cardinality(MapKeys(listCache')),
                           pending |-> Cardinality(MapKeys(pendingRequests'))]
    ]_vars

\* clearCache has run on an index page, an entry and its summary that had
\* been cached and on a registered read that was still in flight, and the
\* four counts are 0
C25_Witness ==
  /\ clears = 1
  /\ GetCacheStats = NoEntries
  /\ \E r \in 1..Len(requests) : requests[r].fn = "list" /\ requests[r].status = "fulfilled"
  /\ \E n \in Filtered(searches) :
       \E k \in 1..Len(searches[n].fetches) :
         /\ searches[n].fetches[k].summary # Undefined
         /\ Settlement(searches[n].fetches[k].promise, requests).status = "fulfilled"
  /\ UnsettledRequests(requests) # {}

(***************************************************************************)
(* C26.  preloadEssentialData.                                             *)
(***************************************************************************)
\* every promise preload p waits for has settled
AllSettled(p) ==
  /\ Settlement(p.list, requests).status # "pending"
  /\ \A k \in 1..Len(p.prefetch) :
       Settlement(p.prefetch[k], requests).status # "pending"

\* what holds of a preload whose index fetch succeeded or failed, whatever
\* its prefetches did
PreloadFollowsIndex(p) ==
  LET l == Settlement(p.list, requests)
  IN  /\ (l.status = "fulfilled" /\ AllSettled(p)) =>
           /\ p.status = "fulfilled"
           /\ p.value = l.value
           /\ p.value.results = Index
      /\ l.status = "rejected" =>
           /\ p.status = "rejected"
           /\ p.value = l.value
      /\ p.status = "fulfilled" => l.status = "fulfilled"
      /\ p.status = "rejected" => l.status = "rejected"

\* C26: preload resolves with the full index when the index fetch
\* succeeded, also when prefetches failed, and fails when the index fetch
\* failed; it is settled only when the index fetch and every prefetch have
\* settled.
C26_PreloadSettlesAfterAll ==
  \A n \in 1..Len(preloads) :
    /\ PreloadFollowsIndex(preloads[n])
    /\ preloads[n].status # "pending" => AllSettled(preloads[n])

\* C26 as amended: preload resolves with the full index when the index
\* fetch succeeded, also when prefetches failed, and only after every
\* prefetch has settled; it fails when the index fetch fails, at that
\* moment, whether or not the prefetches have settled.
C26_PreloadFailsWithIndexAtOnce ==
  \A n \in 1..Len(preloads) :
    /\ PreloadFollowsIndex(preloads[n])
    /\ preloads[n].status = "fulfilled" => AllSettled(preloads[n])
    /\ preloads[n].status = "pending" =>
         Settlement(preloads[n].list, requests).status # "rejected"

\* a preload that failed with its index fetch while the two prefetches it
\* started were still in flight
C26_Witness ==
  \E n \in 1..Len(preloads) :
    /\ preloads[n].status = "rejected"
    /\ Len(preloads[n].prefetch) = 2
    /\ \A k \in 1..2 :
         /\ preloads[n].prefetch[k].req \in preloads[n].started
         /\ Settlement(preloads[n].prefetch[k], requests).status = "pending"

(***************************************************************************)
(* C27.  The promise of a superseded search.                               *)
(***************************************************************************)
\* the searches whose timer was cleared by a later call
Superseded(ss) == {n \in 1..Len(ss) : \E m \in 1..Len(ss) : n \in ss[m].within}

\* C27: the promise of a search call whose debounce timer was cleared by a
\* later call is never settled, neither resolved nor rejected, in the step
\* that clears the timer and in every later step; the searches that return
\* a result to their caller, the page included, are calls that no later
\* call superseded.
C27_SupersededNeverSettles ==
  [][ /\ \A n \in Superseded(searches') :
           /\ searches'[n].phase = "cancelled"
           /\ searches'[n].result = Undefined
      /\ \A n \in 1..Len(searches) :
           searches[n].phase = "cancelled" => searches'[n] = searches[n]
      /\ \A n \in 1..Len(searches') :
           searches'[n].phase = "settled" => n \notin Superseded(searches')
      /\ resultsFrom' # 0 => resultsFrom' \notin Superseded(searches')
    ]_vars

\* a search of the page was superseded by a direct call that has settled:
\* the page's call is still unsettled and its handler is still waiting
C27_Witness ==
  /\ Len(searches) = 2
  /\ searches[1].caller = "handleSearch"
  /\ searches[1].phase = "cancelled"
  /\ searches[1].result = Undefined
  /\ searches[2].within = {1}
  /\ searches[2].phase = "settled"
  /\ UnsettledRequests(requests) = {}
  /\ searching = TRUE
  /\ resultsFrom = 0

(***************************************************************************)
(* C28, C29.  Operations in flight across clearCache.                      *)
(***************************************************************************)
\* the operations started by a call made before the last clearCache
StartedBeforeClear(cs, n) ==
  {r \in 1..Len(requests) :
     \E c \in 1..Len(cs) : cs[c].req = r /\ cs[c].started /\ cs[c].clears < n}

\* C28: a network operation that was in flight when clearCache ran writes
\* its result into its cache in the step in which it succeeds, under its
\* key and with the value it read, as if the cache had not been cleared.
C28_InFlightWritesAfterClear ==
  [][\A r \in StartedBeforeClear(calls, clears) :
       (requests[r].status = "pending" /\ requests'[r].status = "fulfilled")
       => LET q == requests'[r]
              cache == CacheOf(q.fn, pokemonCache', listCache')
          IN  /\ LRUHas(cache, q.key)
              /\ MapGet(cache, q.key) = q.value
              /\ q.value.obj = r]_vars

\* clearCache has run, no fetch was requested after it, and the entry cache
\* holds an entry again: the result of a read that was in flight
C28_Witness ==
  /\ clears = 1
  /\ \A c \in 1..Len(calls) : calls[c].clears = 0
  /\ pokemonCache # <<>>
  /\ \E r \in StartedBeforeClear(calls, clears) :
       /\ requests[r].status = "fulfilled"
       /\ LRUHas(pokemonCache, requests[r].key)
       /\ MapGet(pokemonCache, requests[r].key).obj = r

\* C29: the step in which an operation completes removes from the registry
\* at most the operation's own registration: an entry that registers
\* another operation, such as a newer operation of the same key started
\* after clearCache and still unsettled, is in the registry after the step.
C29_CompletionRemovesOwnEntryOnly ==
  [][\A r \in UnsettledRequests(requests) :
       requests'[r].status # "pending"
       => \A i \in 1..Len(pendingRequests) :
            LET e == pendingRequests[i]
            IN  (e.value.req # r /\ requests'[e.value.req].status = "pending")
                => /\ MapHas(pendingRequests', e.key)
                   /\ MapGet(pendingRequests', e.key) = e.value]_vars

(***************************************************************************)
(* C30.  The key namespaces of fetchPokemonDetails and fetchPokemonFromUrl.*)
(***************************************************************************)
\* the kind of network operation a fetch function starts
KindOf(fn) == IF fn = "fetchPokemonList" THEN "list"
              ELSE IF fn = "fetchPokemonDetails" THEN "pokemon" ELSE "url"

\* the network operation whose result call c was given or waits for
SourceOf(c) ==
  IF c.req # 0 THEN c.req
  ELSE c.result.value.obj

\* C30: a call of fetchPokemonFromUrl is never answered by an entry cached
\* or an operation in flight under the key of fetchPokemonDetails for the
\* same entity, nor the other way round: the keys of the two functions
\* differ, every call is answered by an operation of its own function, and
\* a call whose own key is neither cached nor in flight starts a network
\* operation, whatever the other function has cached or in flight.
C30_ByIdAndByUrlKeysDisjoint ==
  /\ \A c, d \in 1..Len(calls) :
       calls[c].fn # calls[d].fn => calls[c].key # calls[d].key
  /\ \A c \in 1..Len(calls) :
       /\ requests[SourceOf(calls[c])].fn = KindOf(calls[c].fn)
       /\ requests[SourceOf(calls[c])].key = calls[c].key
       /\ (~calls[c].cached /\ calls[c].live = {}) => calls[c].started
  /\ \A i \in 1..Len(pokemonCache) :
       requests[pokemonCache[i].value.obj].key = pokemonCache[i].key
  /\ \A i \in 1..Len(pendingRequests) :
       requests[pendingRequests[i].value.req].key = pendingRequests[i].key

\* an entity was fetched by id and then by its locator, without clearCache:
\* the second call started its own operation although the first one's
\* entry was cached or in flight, and the entry cache holds both results
C30_Witness ==
  /\ clears = 0
  /\ \E i \in Entities :
       \E c, d \in 1..Len(calls) :
         /\ c < d
         /\ calls[c].fn = "fetchPokemonDetails"
         /\ calls[c].key = PokemonKey(i)
         /\ calls[d].fn = "fetchPokemonFromUrl"
         /\ calls[d].key = UrlKey(Url(i))
         /\ calls[c].started
         /\ calls[d].started
         /\ calls[c].req # calls[d].req
         /\ LRUHas(pokemonCache, PokemonKey(i))
         /\ LRUHas(pokemonCache, UrlKey(Url(i)))

(***************************************************************************)
(* C31.  LRUCache.has.                                                     *)
(***************************************************************************)
\* C31: has(key) returns whether the key is present and leaves the cache as
\* it was: the same keys in the same recency order with the same values,
\* hence the same size; a set that has to evict removes the key whose last
\* get-hit or set is the oldest, however recently has probed it.
C31_HasLeavesCacheAlone ==
  [][ /\ lruLast'.op = "has" =>
           /\ lruLast'.ret = [bool |-> lruLast'.key \in MapKeys(lru)]
           /\ lru' = lru
           /\ LRUSize(lru') = LRUSize(lru)
      /\ (/\ lruLast'.op = "set"
          /\ lruLast'.key \notin MapKeys(lru)
          /\ Len(lru) = lruMax) =>
           \E victim \in MapKeys(lru) :
             /\ MapKeys(lru) \ MapKeys(lru') = {victim}
             /\ \A j \in MapKeys(lru) : lruTouch[victim] <= lruTouch[j]
    ]_vars

\* a key was evicted although has had found it after every key that stayed
\* had last been read or written
C31_Witness ==
  /\ lruLast.op = "set"
  /\ lruMax >= 2
  /\ Len(lruLast.before) = lruMax
  /\ \E victim \in MapKeys(lruLast.before) \ MapKeys(lru) :
       \A k \in MapKeys(lruLast.before) \cap MapKeys(lru) :
         /\ lruProbe[victim] > lruTouch[k]
         /\ lruTouch[victim] < lruTouch[k]

(***************************************************************************)
(* C32.  The summary cache and failed fetches.                             *)
(***************************************************************************)
\* the fetches (search, position) of match name that ended as given
FetchesOf(ss, reqs, name, status) ==
  {f \in UNION {{<<n, k>> : k \in 1..Len(ss[n].fetches)} : n \in 1..Len(ss)} :
     /\ ss[f[1]].fetches[f[2]].item.name = name
     /\ Settlement(ss[f[1]].fetches[f[2]].promise, reqs).status = status}

\* C32: the summary cache holds only summaries projected from entries that
\* were fetched successfully, never the minimal summary of a failed fetch;
\* a search whose match had only failed fetches so far fetches it again,
\* with a read that is not one of the failed ones.
C32_FallbackIsNotCached ==
  [][ /\ \A i \in 1..Len(summaryCache') :
           LET e == summaryCache'[i]
           IN  /\ DOMAIN e.value = {"id", "name", "url", "sprite", "types"}
               /\ \E f \in FetchesOf(searches', requests', e.value.name, "fulfilled") :
                    LET x == searches'[f[1]].fetches[f[2]]
                    IN  /\ e.key = SummaryKey(x.item.name)
                        /\ e.value = SummaryOf(Settlement(x.promise, requests').value,
                                               x.item)
      /\ \A n \in 1..Len(searches) :
           Resolves(n) =>
             \A m \in 1..Len(searches'[n].matches) :
               LET name == searches'[n].matches[m].name
               IN  (/\ FetchesOf(searches, requests, name, "rejected") # {}
                    /\ FetchesOf(searches, requests, name, "fulfilled") = {})
                   => \E k \in 1..Len(searches'[n].fetches) :
                        LET x == searches'[n].fetches[k]
                        IN  /\ x.item = searches'[n].matches[m]
                            /\ x.promise.req # 0
                            /\ (\/ x.promise.req \in NewRequests
                                \/ requests[x.promise.req].status = "pending")
    ]_vars

\* the fetch of a match failed in one search and was not cached; the next
\* search fetched the match again with a new read, which succeeded, and
\* only then the summary cache got its summary
C32_Witness ==
  \E n, m \in 1..Len(searches) :
    \E j \in 1..Len(searches[n].fetches), k \in 1..Len(searches[m].fetches) :
      LET x == searches[n].fetches[j]
          y == searches[m].fetches[k]
      IN  /\ n < m
          /\ x.item = y.item
          /\ Settlement(x.promise, requests).status = "rejected"
          /\ x.summary = BasicSummary(x.item)
          /\ y.promise.req > x.promise.req
          /\ Settlement(y.promise, requests).status = "fulfilled"
          /\ LRUHas(summaryCache, SummaryKey(y.item.name))
          /\ MapGet(summaryCache, SummaryKey(y.item.name)) = y.summary

(***************************************************************************)
(* C33.  Termination and size of the result of batchFetchPokemon.          *)
(***************************************************************************)
\* the number of items of a batch that name entity i
ItemCount(items, i) ==
  Cardinality({k \in 1..Len(items) : EntityOfUrl(items[k].url) = i})

\* C33: for every concurrency from 1 up, a batch whose fetches have all
\* settled is settled itself, a batch that is still pending waits for a
\* read that is still pending; a fulfilled batch has as many entries as
\* items, an entity named by k items having k entries; a batch of no items
\* is fulfilled with the empty sequence and started no network operation.
C33_BatchSettlesWithItsReads ==
  \A b \in 1..Len(batches) :
    LET B == batches[b]
        unsettled == {r \in BatchReqs(B) : requests[r].status = "pending"}
    IN  /\ B.concurrency >= 1
        /\ unsettled = {} => B.status \in {"fulfilled", "rejected"}
        /\ B.status = "pending" => unsettled # {}
        /\ B.status = "fulfilled"
             => /\ Len(B.value) = Len(B.items)
                /\ \A i \in Entities : IdCount(B.value, i) = ItemCount(B.items, i)
        /\ B.items = <<>>
             => /\ B.status = "fulfilled"
                /\ B.value = <<>>
                /\ B.started = {}
                /\ BatchReqs(B) = {}

\* C33 witness: a batch of the same reference twice, one item a chunk, made
\* one network read and was fulfilled with two entries of that entity
C33_Witness ==
  \E b \in 1..Len(batches) :
    /\ batches[b].items = <<Index[1], Index[1]>>
    /\ batches[b].concurrency = 1
    /\ Len(batches[b].chunks) = 2
    /\ Cardinality(batches[b].started) = 1
    /\ batches[b].status = "fulfilled"
    /\ Len(batches[b].value) = 2
    /\ batches[b].value[1].id = 1
    /\ batches[b].value[2].id = 1

(***************************************************************************)
(* C34.  The other fetches of a batch that failed.                         *)
(***************************************************************************)
\* the read of r can end with a response, and then r is fulfilled and its
\* entry is in the entry cache under the key of r
CanCompleteAndStore(r) ==
  ENABLED (/\ NetSettle(r, TRUE)
           /\ requests'[r].status = "fulfilled"
           /\ MapHas(pokemonCache', requests[r].key)
           /\ MapGet(pokemonCache', requests[r].key) = requests'[r].value)

\* C34: a fetch of a rejected batch that is still in flight can complete,
\* and completing with a response it stores its entry; every fetch of a
\* rejected batch that succeeded has its entry in the entry cache; and the
\* network reads a batch starts are for keys that are not cached, every
\* earlier read of such a key having failed.
C34_FailedBatchLeavesFetchesRunning ==
  /\ \A b \in 1..Len(batches) :
       batches[b].status = "rejected"
       => \A r \in BatchReqs(batches[b]) :
            /\ requests[r].status = "pending"
                 => /\ MapHas(pendingRequests, requests[r].key)
                    /\ CanCompleteAndStore(r)
            /\ requests[r].status = "fulfilled"
                 => /\ MapHas(pokemonCache, requests[r].key)
                    /\ MapGet(pokemonCache, requests[r].key) = requests[r].value
  /\ \A b \in 1..Len(batches) :
       \A r \in batches[b].started :
         \A r0 \in 1..(r - 1) :
           requests[r0].key = requests[r].key => requests[r0].status = "rejected"

\* C34 witness: the first batch was rejected by the failure of one read
\* while its other read was in flight; the second batch, of the same items,
\* started a read for the failed item only and joined the read in flight,
\* which then succeeded and stored its entry
C34_Witness ==
  /\ Len(batches) = 2
  /\ batches[1].items = Index
  /\ batches[2].items = Index
  /\ batches[1].status = "rejected"
  /\ batches[1].started = {1, 2}
  /\ batches[1].value = ErrorOf(1)
  /\ requests[1].status = "rejected"
  /\ batches[2].started = {3}
  /\ requests[3].key = requests[1].key
  /\ 2 \in BatchReqs(batches[2])
  /\ requests[2].status = "fulfilled"
  /\ MapGet(pokemonCache, requests[2].key) = requests[2].value

=============================================================================
